---- MODULE Spec2Model ----
(***************************************************************************)
(* Catch-up orchestration pipeline of the live-transcription backend.      *)
(*                                                                         *)
(*   SpecTask        src/backend/main.py: request_catchup and the          *)
(*                   background worker process_catchup_async               *)
(*   SpecTranscribe  src/backend/parallel_transcriber.py: one run of       *)
(*                   transcribe_clips_parallel, clip by clip               *)
(*   SpecUpload      src/aws_backend/src/transcription.py: the chunked     *)
(*                   upload handlers init / upload_chunk / finalize        *)
(*   SpecSlice       src/serverless/api/catchup.py: parse_twitch_duration  *)
(*                   and compute_slice_parameters on one input             *)
(*   SpecMerge       src/backend/main.py: merge_transcripts and the lines  *)
(*                   of process_catchup_async that use its value, on one   *)
(*                   list of transcripts                                   *)
(*   SpecPoll        src/backend/parallel_transcriber.py: the AssemblyAI   *)
(*                   calls of the clips of one batch, request by request   *)
(*   SpecLive        main.py with parallel_transcriber.py: a task and the  *)
(*                   AssemblyAI calls it waits for, under fair scheduling  *)
(*   SpecCredit      main.py for a caller whom the credit gate may deny    *)
(*   SpecStatus      main.py: the orchestrator with get_catchup_status     *)
(*   SpecExtract     catchup.py: one create_clips_for_vod_range call       *)
(*   SpecMoments     catchup.py: extract_key_moments_with_timestamps       *)
(*   SpecHandler     catchup.py and aws_lambda/lambda_function.py: the     *)
(*                   serverless entry points                               *)
(*   SpecClips       stream_processor.py: the clip loops of the tasks in   *)
(*   SpecWindow      flight, with the clock, and on every platform         *)
(*   SpecRace        transcription.py: upload_chunk calls, and finalize    *)
(*   SpecFinal       calls, that run at the same time                      *)
(*   SpecSmall       transcription.py: uploads of zero chunks or one       *)
(*   SpecProxy       transcription.py and credits.py: catchup_proxy calls  *)
(*                   of one user that run at the same time                 *)
(*                                                                         *)
(* Each specification moves its own variables and leaves the others at     *)
(* their idle values.                                                      *)
(***************************************************************************)
EXTENDS Integers, Sequences, FiniteSets, TLC

VARIABLES
    active_tasks,   \* main.py:45    task_id -> task_info (the global dict)
    worker,         \* main.py:160   task_id -> position and locals of process_catchup_async
    api_response,   \* main.py:79    the last answer of request_catchup
    credit_gate,    \* credits.py:261  what the credit gate answers for the caller of the requests
    extract,        \* catchup.py:452  the frame of one create_clips_for_vod_range call
    clipgen,        \* stream_processor.py:56  the clock and the clip-creation loops of the tasks in flight
    calls,          \* transcription.py:776  the upload_chunk calls in flight, each with its copy of the session
    proxy,          \* transcription.py:141  the users table and the catchup_proxy calls in flight
    handler,        \* catchup.py:1141  the requests of the serverless catch-up handlers in flight
    tr,             \* parallel_transcriber.py:28  the frame of one transcribe_clips_parallel call
    now,            \* transcription.py:742  int(time.time())
    session_files,  \* transcription.py:760  /tmp/upload_{upload_id}.json -> upload_session
    chunk_files,    \* transcription.py:811  /tmp/chunk_{upload_id}_{chunk_index}.dat -> bytes
    processed,      \* transcription.py:895  what finalize handed to process_complete_audio
    inits,          \* number of init_chunked_upload calls made so far
    response,       \* the last answer of a chunked-upload handler
    slice,          \* catchup.py:227  the arguments and results of the slice functions
    merge,          \* main.py:238  the argument of merge_transcripts and what becomes of it
    jobs            \* parallel_transcriber.py:166  position of each clip of a batch in
                    \* _real_transcribe_with_assemblyai

vars == <<active_tasks, worker, api_response, tr,
          now, session_files, chunk_files, processed, inits, response, slice, merge, jobs, credit_gate, extract, clipgen, calls, proxy, handler>>

taskVars   == <<active_tasks, worker, api_response>>
trVars     == <<tr>>
uploadVars == <<now, session_files, chunk_files, processed, inits, response>>
sliceVars  == <<slice>>
mergeVars  == <<merge>>
pollVars   == <<jobs>>
handlerVars == <<handler>>
proxyVars  == <<proxy>>
raceVars   == <<calls>>
clipVars   == <<clipgen>>
extractVars == <<extract>>
gateVars   == <<credit_gate>>

(***************************************************************************)
(* Bounds of the model                                                     *)
(***************************************************************************)
MaxTasks == 2
MaxClips == 5       \* clips of one transcribe_clips_parallel call
MaxWorkers == 3     \* max_workers of the ParallelTranscriber under test
MaxChunks == 2      \* largest total_chunks a client asks for
MaxInits == 2       \* init_chunked_upload calls in a run
MaxTime == 1        \* the clock runs from 0 to MaxTime seconds
MaxSegments == 3    \* transcripts in a list given to merge_transcripts
MaxJobs == 3        \* clips of the batch whose AssemblyAI calls are followed
MaxWindow == 3      \* minutes of the widest window given to create_clips_for_vod_range
MaxClock == 1       \* seconds that pass while the clips of the tasks are made
MaxCallers == 2     \* upload_chunk calls that run at the same time

\* Python's None; a record, so that it compares with the dicts it stands in for.
None == [none |-> TRUE]

Min(a, b) == IF a <= b THEN a ELSE b
Max(a, b) == IF a >= b THEN a ELSE b

(***************************************************************************)
(* Text.  A str is a sequence of characters.                               *)
(***************************************************************************)
\* str.strip(): leading and trailing blanks removed
RECURSIVE LStrip(_)
LStrip(s) == IF s # <<>> /\ Head(s) = " " THEN LStrip(Tail(s)) ELSE s

RECURSIVE RStrip(_)
RStrip(s) == IF s # <<>> /\ s[Len(s)] = " " THEN RStrip(SubSeq(s, 1, Len(s) - 1)) ELSE s

Strip(s) == RStrip(LStrip(s))

\* ' '.join(texts)
RECURSIVE Join(_)
Join(texts) ==
    IF texts = <<>> THEN <<>>
    ELSE IF Len(texts) = 1 THEN texts[1]
    ELSE texts[1] \o <<" ">> \o Join(Tail(texts))

\* s[:n]
Prefix(s, n) == SubSeq(s, 1, Min(Len(s), n))

(***************************************************************************)
(* Stream URLs and platforms (main.py, stream_processor.py)                *)
(***************************************************************************)
\* The requests of the model: a YouTube stream (2 clips for 30 minutes, 4 for
\* 60) and a URL of no supported platform.
StreamUrls == {"https://youtube.com/watch?v=x", "https://example.com/live"}

DurationChoices == {30, 45, 60}

\* Python's `needle in url` on the URLs above
Contains(needle, url) ==
    \/ needle = "twitch.tv"   /\ url = "https://twitch.tv/streamer"
    \/ needle = "youtube.com" /\ url = "https://youtube.com/watch?v=x"
    \/ needle = "kick.com"    /\ url = "https://kick.com/streamer"

supported_platforms == {"twitch.tv", "youtube.com", "youtu.be", "kick.com"}

_is_valid_stream_url(url) == \E platform \in supported_platforms : Contains(platform, url)

_detect_platform(url) ==
    IF Contains("twitch.tv", url) THEN "twitch"
    ELSE IF Contains("youtube.com", url) \/ Contains("youtu.be", url) THEN "youtube"
    ELSE IF Contains("kick.com", url) THEN "kick"
    ELSE "unknown"

\* The three _create_*_clips loops: one clip per `per` minutes, at least one.
\* `per` is 10 (twitch), 15 (youtube) or 12 (kick).
MinutesPerClip(platform) ==
    CASE platform = "twitch"  -> 10
      [] platform = "youtube" -> 15
      [] platform = "kick"    -> 12

PlatformClips(platform, duration_minutes) ==
    LET per == MinutesPerClip(platform)
        clips_needed == Max(1, duration_minutes \div per)
    IN  [k \in 1..clips_needed |->
            [id         |-> <<platform, k - 1>>,
             platform   |-> platform,
             start_time |-> (k - 1) * per * 60,
             duration   |-> Min(per * 60, (duration_minutes - (k - 1) * per) * 60)]]

\* create_parallel_clips: the clip list, or <<"raise">> for an unsupported platform
create_parallel_clips(stream_url, duration_minutes) ==
    LET platform == _detect_platform(stream_url)
    IN  IF platform = "unknown" THEN <<"raise">>
        ELSE PlatformClips(platform, duration_minutes)

(***************************************************************************)
(* Parallel transcriber, per clip (parallel_transcriber.py)                *)
(***************************************************************************)
\* main.py:265  a transcript shorter than this gets the basic summary
SummaryMinChars == 100
\* main.py:202  fullTranscript is cut to this many characters
TranscriptLimit == 5000

\* _generate_mock_transcript: every template is longer than SummaryMinChars
MockText == [i \in 1..(SummaryMinChars + 1) |-> "m"]
\* a text the speech-to-text service returned
RealText == <<"h", "i">>

\* What happens to one clip:
\*   "demo"       the audio file does not exist: mock transcript
\*   "completed"  the file exists and the AssemblyAI job completes
\*   "error"      the file exists and upload, submission or polling raises
ClipOutcomes == {"demo", "completed", "error"}
\* the outcomes the task model draws from
TaskClipOutcomes == {"demo", "error"}

IsException(r) == "exception" \in DOMAIN r

\* mutant: no try/except, the error leaves the coroutine
transcribe_single_clip_raises(clip, index, outcome) ==
    CASE outcome = "demo" ->
            [clip_id |-> clip.id, index |-> index, text |-> MockText, error |-> ""]
      [] outcome = "completed" ->
            [clip_id |-> clip.id, index |-> index, text |-> RealText, error |-> ""]
      [] outcome = "error" ->
            [exception |-> "Transcription failed"]

transcribe_single_clip(clip, index, outcome) ==
    CASE outcome = "demo" ->
            [clip_id |-> clip.id, index |-> index, text |-> MockText, error |-> ""]
      [] outcome = "completed" ->
            [clip_id |-> clip.id, index |-> index, text |-> RealText, error |-> ""]
      [] outcome = "error" ->
            [clip_id |-> clip.id, index |-> index, text |-> <<>>,
             error |-> "Transcription failed"]

\* lines 55-58: the results of a batch that are not exceptions, in gather's order
RECURSIVE successful_results(_)
successful_results(batch_results) ==
    IF batch_results = <<>> THEN <<>>
    ELSE IF IsException(Head(batch_results)) THEN successful_results(Tail(batch_results))
    ELSE <<Head(batch_results)>> \o successful_results(Tail(batch_results))

\* mutant: the slice has no upper end
Batch_unbounded(clips, i, batch_size) == SubSeq(clips, i + 1, Len(clips))

\* line 42: clips[i:i + batch_size]
Batch(clips, i, batch_size) == SubSeq(clips, i + 1, Min(i + batch_size, Len(clips)))

\* what asyncio.gather returns for the batch starting at clip i (0-based):
\* one entry per task, in the order the tasks were passed
BatchResults(clips, outcomes, i, batch_size) ==
    [k \in 1..Len(Batch(clips, i, batch_size)) |->
        transcribe_single_clip(Batch(clips, i, batch_size)[k], k - 1 + i, outcomes[i + k])]

\* transcribe_clips_parallel run to its end, given each clip's outcome
RECURSIVE TranscribeFrom(_, _, _, _)
TranscribeFrom(clips, outcomes, i, batch_size) ==
    IF i >= Len(clips) THEN <<>>
    ELSE successful_results(BatchResults(clips, outcomes, i, batch_size))
         \o TranscribeFrom(clips, outcomes, i + batch_size, batch_size)

\* parallel_transcriber.py:23  ParallelTranscriber(max_workers = 5)
DefaultMaxWorkers == 5

transcribe_clips_parallel(clips, outcomes) ==
    IF clips = <<>> THEN <<>> ELSE TranscribeFrom(clips, outcomes, 0, DefaultMaxWorkers)

(***************************************************************************)
(* Task orchestrator (main.py)                                             *)
(***************************************************************************)
TaskIds == 1..MaxTasks

Msg(text, n) == [text |-> text, n |-> n]

\* sorted(transcripts, key = index): insertion sort, stable as Python's
RECURSIVE InsertByIndex(_, _)
InsertByIndex(r, sorted) ==
    IF sorted = <<>> THEN <<r>>
    ELSE IF r.index < Head(sorted).index THEN <<r>> \o sorted
    ELSE <<Head(sorted)>> \o InsertByIndex(r, Tail(sorted))

\* mutant: the transcripts are taken in the order of the list
SortByIndex_unsorted(rs) == rs

RECURSIVE SortByIndex(_)
SortByIndex(rs) ==
    IF rs = <<>> THEN <<>>
    ELSE InsertByIndex(rs[Len(rs)], SortByIndex(SubSeq(rs, 1, Len(rs) - 1)))

RECURSIVE NonBlankTexts(_)
NonBlankTexts(rs) ==
    IF rs = <<>> THEN <<>>
    ELSE IF Strip(Head(rs).text) # <<>> THEN <<Head(rs).text>> \o NonBlankTexts(Tail(rs))
    ELSE NonBlankTexts(Tail(rs))

merge_transcripts(transcripts) == Strip(Join(NonBlankTexts(SortByIndex(transcripts))))

\* mutant: the error of the OpenAI call leaves generate_ai_summary
generate_ai_summary_raises(transcript) ==
    IF Strip(transcript) = <<>> \/ Len(Strip(transcript)) < SummaryMinChars
    THEN "limited_content_summary"
    ELSE "raise"

\* generate_ai_summary: which of its three texts it returns.  main.py never
\* imports aiohttp, so the OpenAI call at line 325 raises NameError inside the
\* try and the except branch returns the fallback summary.
generate_ai_summary(transcript) ==
    IF Strip(transcript) = <<>> \/ Len(Strip(transcript)) < SummaryMinChars
    THEN "limited_content_summary"
    ELSE "fallback_summary"

\* Python truthiness of the `result` argument (a dict or None)
Truthy(result) == result # None

\* mutant: the result argument is never stored
update_task_status_drops_result(tasks, task_id, status, progress, message, result) ==
    IF task_id \in DOMAIN tasks
    THEN [tasks EXCEPT ![task_id] =
            [@ EXCEPT !.status = status, !.progress = progress, !.message = message]]
    ELSE tasks

update_task_status(tasks, task_id, status, progress, message, result) ==
    IF task_id \in DOMAIN tasks
    THEN [tasks EXCEPT ![task_id] =
            [@ EXCEPT !.status = status, !.progress = progress, !.message = message,
                      !.result = IF Truthy(result) THEN result ELSE @]]
    ELSE tasks

IdleWorker == [pc |-> "none", clips |-> <<>>, transcripts |-> <<>>]

InitTask ==
    /\ active_tasks = <<>>
    /\ worker = [t \in TaskIds |-> IdleWorker]
    /\ api_response = [op |-> "none", code |-> 0, task_id |-> 0]

\* uuid4: an id never used before
FreshIds == {t \in TaskIds : worker[t].pc = "none"}

\* mutant: the task is stored before the request is validated
request_catchup_stores_first(stream_url, duration_minutes) ==
    /\ FreshIds # {}
    /\ LET task_id == CHOOSE t \in FreshIds : \A u \in FreshIds : t <= u
           task_info == [task_id |-> task_id, status |-> "initialized", progress |-> 0,
                         message |-> Msg("Task initialized", 0),
                         stream_url |-> stream_url,
                         duration_minutes |-> duration_minutes,
                         result |-> None]
       IN  /\ active_tasks' = (task_id :> task_info) @@ active_tasks
           /\ IF duration_minutes \notin {30, 60} \/ ~_is_valid_stream_url(stream_url)
              THEN /\ api_response' = [op |-> "request_catchup", code |-> 400, task_id |-> 0]
                   /\ UNCHANGED worker
              ELSE /\ worker' = [worker EXCEPT ![task_id].pc = "scheduled"]
                   /\ api_response' = [op |-> "request_catchup", code |-> 200,
                                       task_id |-> task_id]

\* POST /api/catchup: validation, then the task is stored and its worker scheduled
request_catchup(stream_url, duration_minutes) ==
    IF duration_minutes \notin {30, 60} \/ ~_is_valid_stream_url(stream_url)
    THEN /\ api_response' = [op |-> "request_catchup", code |-> 400, task_id |-> 0]
         /\ UNCHANGED <<active_tasks, worker>>
    ELSE /\ FreshIds # {}
         /\ LET task_id == CHOOSE t \in FreshIds : \A u \in FreshIds : t <= u
                task_info == [task_id |-> task_id, status |-> "initialized", progress |-> 0,
                              message |-> Msg("Task initialized", 0),
                              stream_url |-> stream_url,
                              duration_minutes |-> duration_minutes,
                              result |-> None]
            IN  /\ active_tasks' = (task_id :> task_info) @@ active_tasks
                /\ worker' = [worker EXCEPT ![task_id].pc = "scheduled"]
                /\ api_response' = [op |-> "request_catchup", code |-> 200,
                                    task_id |-> task_id]

\* mutant: the status request takes the task out of the map as it reads it
get_catchup_status_pops(task_id) ==
    /\ task_id \in DOMAIN active_tasks
    /\ api_response' = [op |-> "get_catchup_status", code |-> 200, task_id |-> task_id,
                        status   |-> active_tasks[task_id].status,
                        progress |-> active_tasks[task_id].progress,
                        message  |-> active_tasks[task_id].message,
                        result   |-> active_tasks[task_id].result]
    /\ active_tasks' = [u \in DOMAIN active_tasks \ {task_id} |-> active_tasks[u]]
    /\ UNCHANGED worker

\* GET /api/catchup/{task_id}/status: 404 for an id that is not in the map,
\* else the fields of the task as they are now
get_catchup_status(task_id) ==
    /\ IF task_id \notin DOMAIN active_tasks
       THEN api_response' = [op |-> "get_catchup_status", code |-> 404, task_id |-> task_id]
       ELSE LET task_info == active_tasks[task_id]
            IN  api_response' = [op |-> "get_catchup_status", code |-> 200,
                                 task_id  |-> task_id,
                                 status   |-> task_info.status,
                                 progress |-> task_info.progress,
                                 message  |-> task_info.message,
                                 result   |-> task_info.result]
    /\ UNCHANGED <<active_tasks, worker>>

\* process_catchup_async, lines 164-177: up to the await of create_parallel_clips
StartProcessing(t) ==
    /\ worker[t].pc = "scheduled"
    /\ active_tasks' = update_task_status(active_tasks, t, "extracting_stream", 10,
                                          Msg("Analyzing stream...", 0), None)
    /\ worker' = [worker EXCEPT ![t].pc = "extracting"]
    /\ UNCHANGED api_response

\* lines 177-183: create_parallel_clips returns clips
ExtractionReturns(t) ==
    /\ worker[t].pc = "extracting"
    /\ LET clips == create_parallel_clips(active_tasks[t].stream_url,
                                          active_tasks[t].duration_minutes)
       IN  /\ clips # <<"raise">>
           /\ clips # <<>>
           /\ active_tasks' = update_task_status(active_tasks, t, "transcribing", 40,
                                  Msg("Transcribing {n} clips...", Len(clips)), None)
           /\ worker' = [worker EXCEPT ![t].pc = "transcribing", ![t].clips = clips]
    /\ UNCHANGED api_response

\* mutant: the failure is recorded but the worker goes on to transcription
ExtractionFails_continues(t) ==
    /\ worker[t].pc = "extracting"
    /\ \E e \in {"Error: No clips could be extracted from stream", "Error: extractor error"} :
          active_tasks' = update_task_status(active_tasks, t, "failed", 0, Msg(e, 0), None)
    /\ worker' = [worker EXCEPT ![t].pc = "transcribing"]
    /\ UNCHANGED api_response

\* lines 177-180 and 219-221: the extractor raises, or returns no clips, and
\* the except branch marks the task failed.  (The bundled StreamProcessor is a
\* mock that always returns clips; a failing extractor is the collaborator the
\* handler is written for.)
ExtractionFails(t) ==
    /\ worker[t].pc = "extracting"
    /\ \E e \in {"Error: No clips could be extracted from stream", "Error: extractor error"} :
          active_tasks' = update_task_status(active_tasks, t, "failed", 0, Msg(e, 0), None)
    /\ worker' = [worker EXCEPT ![t].pc = "done"]
    /\ UNCHANGED api_response

\* mutant: the update after the transcription reports less progress than the
\* one before it
TranscriptionReturns_lower_progress(t) ==
    /\ worker[t].pc = "transcribing"
    /\ \E outcomes \in [1..Len(worker[t].clips) -> TaskClipOutcomes] :
          worker' = [worker EXCEPT ![t].pc = "summarizing",
                        ![t].transcripts = transcribe_clips_parallel(worker[t].clips, outcomes)]
    /\ active_tasks' = update_task_status(active_tasks, t, "summarizing", 30,
                                          Msg("Generating AI summary...", 0), None)
    /\ UNCHANGED api_response

\* lines 187-190: transcribe_clips_parallel returns
TranscriptionReturns(t) ==
    /\ worker[t].pc = "transcribing"
    /\ \E outcomes \in [1..Len(worker[t].clips) -> TaskClipOutcomes] :
          worker' = [worker EXCEPT ![t].pc = "summarizing",
                        ![t].transcripts = transcribe_clips_parallel(worker[t].clips, outcomes)]
    /\ active_tasks' = update_task_status(active_tasks, t, "summarizing", 80,
                                          Msg("Generating AI summary...", 0), None)
    /\ UNCHANGED api_response

\* lines 194-209: merge, summarize, store the result; an exception that left
\* generate_ai_summary would be caught at line 219
Summarize(t) ==
    /\ worker[t].pc = "summarizing"
    /\ LET combined_transcript == merge_transcripts(worker[t].transcripts)
           summary == generate_ai_summary(combined_transcript)
           result == [summary        |-> summary,
                      fullTranscript |-> Prefix(combined_transcript, TranscriptLimit),
                      clipsProcessed |-> Len(worker[t].clips),
                      duration       |-> active_tasks[t].duration_minutes]
       IN  IF summary = "raise"
           THEN /\ active_tasks' = update_task_status(active_tasks, t, "failed", 0,
                                        Msg("Error: summary", 0), None)
                /\ worker' = [worker EXCEPT ![t].pc = "done"]
           ELSE /\ active_tasks' = update_task_status(active_tasks, t, "complete", 100,
                                        Msg("Summary generated successfully!", 0), result)
                /\ worker' = [worker EXCEPT ![t].pc = "sleeping"]
    /\ UNCHANGED api_response

\* mutant: the sleep is interrupted by an error that the except branch catches
Cleanup_interrupted(t) ==
    /\ worker[t].pc = "sleeping"
    /\ active_tasks' = update_task_status(active_tasks, t, "failed", 0,
                                          Msg("Error: interrupted", 0), None)
    /\ worker' = [worker EXCEPT ![t] = [IdleWorker EXCEPT !.pc = "done"]]
    /\ UNCHANGED api_response

\* lines 213-217: ten minutes later the task is dropped from the map
Cleanup(t) ==
    /\ worker[t].pc = "sleeping"
    /\ active_tasks' = IF t \in DOMAIN active_tasks
                       THEN [u \in DOMAIN active_tasks \ {t} |-> active_tasks[u]]
                       ELSE active_tasks
    /\ worker' = [worker EXCEPT ![t] = [IdleWorker EXCEPT !.pc = "done"]]
    /\ UNCHANGED api_response

(***************************************************************************)
(* One call of transcribe_clips_parallel, clip by clip                     *)
(* (parallel_transcriber.py:28-126)                                        *)
(*                                                                         *)
(* tr is the frame of the call: pc, the argument clips, self.max_workers,  *)
(* the loop variable i, the running batch (one task per clip of the batch, *)
(* "pending", "running" or "done", and the slot gather keeps for its       *)
(* result), results, and log, the indexes in the order in which the        *)
(* TRANSCRIBED / TRANSCRIPTION FAILED lines were logged.                   *)
(***************************************************************************)
TestClips(n) == [k \in 1..n |-> [id |-> <<"clip", k - 1>>]]

Frame(clips, max_workers) ==
    [pc |-> "called", clips |-> clips, max_workers |-> max_workers, i |-> 0,
     tasks |-> <<>>, batch_results |-> <<>>, results |-> <<>>, log |-> <<>>,
     outcomes |-> [k \in 1..Len(clips) |-> "not run"]]

InitTranscriber ==
    \E n \in 0..MaxClips, w \in 1..MaxWorkers : tr = Frame(TestClips(n), w)

\* lines 34-39
Enter ==
    /\ tr.pc = "called"
    /\ tr' = IF tr.clips = <<>> THEN [tr EXCEPT !.pc = "returned"]
             ELSE [tr EXCEPT !.pc = "loop"]

\* lines 41-52: the next batch is cut, one task per clip is created, gather awaits them
StartBatch ==
    /\ tr.pc = "loop"
    /\ tr.i < Len(tr.clips)
    /\ LET batch == Batch(tr.clips, tr.i, tr.max_workers)
       IN  tr' = [tr EXCEPT !.pc = "gather",
                            !.tasks = [k \in 1..Len(batch) |-> "pending"],
                            !.batch_results = [k \in 1..Len(batch) |-> None]]

\* the event loop starts the k-th task of the batch: it runs to its first await
ClipStarts(k) ==
    /\ tr.pc = "gather"
    /\ k \in 1..Len(tr.tasks)
    /\ tr.tasks[k] = "pending"
    /\ tr' = [tr EXCEPT !.tasks[k] = "running"]

\* transcribe_single_clip of the k-th task ends; gather stores what it returned
ClipFinishes(k, outcome) ==
    /\ tr.pc = "gather"
    /\ k \in 1..Len(tr.tasks)
    /\ tr.tasks[k] = "running"
    /\ tr' = [tr EXCEPT !.tasks[k] = "done",
                        !.batch_results[k] =
                            transcribe_single_clip(tr.clips[tr.i + k], k - 1 + tr.i, outcome),
                        !.log = Append(@, k - 1 + tr.i),
                        !.outcomes[tr.i + k] = outcome]

\* mutant: a failed clip in the batch ends the run with the results so far
GatherReturns_aborts ==
    /\ tr.pc = "gather"
    /\ \A k \in 1..Len(tr.tasks) : tr.tasks[k] = "done"
    /\ LET failed == \E k \in 1..Len(tr.batch_results) :
                         IsException(tr.batch_results[k]) \/ tr.batch_results[k].error # ""
       IN  tr' = [tr EXCEPT !.results = @ \o successful_results(tr.batch_results),
                            !.tasks = <<>>,
                            !.batch_results = <<>>,
                            !.pc = IF failed THEN "returned"
                                   ELSE IF tr.i + tr.max_workers < Len(tr.clips)
                                   THEN "pacing" ELSE "loop",
                            !.i = IF tr.i + tr.max_workers < Len(tr.clips)
                                  THEN @ ELSE @ + tr.max_workers]

\* mutant: the loop sleeps after every batch, the last one included
GatherReturns_always_paces ==
    /\ tr.pc = "gather"
    /\ \A k \in 1..Len(tr.tasks) : tr.tasks[k] = "done"
    /\ tr' = [tr EXCEPT !.results = @ \o successful_results(tr.batch_results),
                        !.tasks = <<>>,
                        !.batch_results = <<>>,
                        !.pc = "pacing"]

\* lines 52-67: gather returns, the results are kept, the loop paces or goes on
GatherReturns ==
    /\ tr.pc = "gather"
    /\ \A k \in 1..Len(tr.tasks) : tr.tasks[k] = "done"
    /\ tr' = [tr EXCEPT !.results = @ \o successful_results(tr.batch_results),
                        !.tasks = <<>>,
                        !.batch_results = <<>>,
                        !.pc = IF tr.i + tr.max_workers < Len(tr.clips)
                               THEN "pacing" ELSE "loop",
                        !.i = IF tr.i + tr.max_workers < Len(tr.clips)
                              THEN @ ELSE @ + tr.max_workers]

\* line 67: await asyncio.sleep(1) is over
PacingDone ==
    /\ tr.pc = "pacing"
    /\ tr' = [tr EXCEPT !.pc = "loop", !.i = @ + tr.max_workers]

\* lines 69-70
Return ==
    /\ tr.pc = "loop"
    /\ tr.i >= Len(tr.clips)
    /\ tr' = [tr EXCEPT !.pc = "returned"]

InFlight == IF tr.pc = "gather"
            THEN {k \in 1..Len(tr.tasks) : tr.tasks[k] = "running"}
            ELSE {}

(***************************************************************************)
(* Chunked upload (aws_backend/src/transcription.py:724-916)               *)
(*                                                                         *)
(* session_files and chunk_files are the files under /tmp.  A session is   *)
(* the JSON object init_chunked_upload writes; chunks_data, a JSON object, *)
(* is the sequence of its keys in insertion order (the file, size and      *)
(* received_at of a key follow from the key).  processed is the sequence   *)
(* of the calls finalize made to process_complete_audio: the content of    *)
(* complete_{upload_id}.wav and the upload_session passed with it.         *)
(***************************************************************************)
Users == {"alice", "bob"}
\* the user who uploads; the other user calls with the upload ids of this one
Uploaders == {"alice"}
\* total_chunks of the init requests
TotalChoices == {MaxChunks}
\* the clients have as many chunks accepted, over all the sessions, as the
\* largest upload has
MaxUploads == MaxChunks

\* f"{user_id}_{int(time.time())}_{total_chunks}chunks"
UploadId(user_id, time, total_chunks) == <<user_id, time, total_chunks>>

\* str(chunk_index) and int(key) on the indexes of the model
Digits == <<"0", "1", "2", "3", "4", "5", "6", "7", "8", "9">>
StrOfInt(i) == IF i < 10 THEN Digits[i + 1] ELSE Digits[(i \div 10) + 1] \o Digits[(i % 10) + 1]
IntOfStr(s) == CHOOSE i \in 0..99 : StrOfInt(i) = s

\* f"/tmp/chunk_{upload_id}_{chunk_index}.dat"
ChunkFile(upload_id, chunk_index) == <<upload_id, StrOfInt(chunk_index)>>

\* The bytes a client sends as chunk i of its audio.
ChunkBytes(user, i) == <<[from |-> user, chunk |-> i]>>

Put(f, k, v) == (k :> v) @@ f
Remove(f, ks) == [k \in DOMAIN f \ ks |-> f[k]]

\* The last call of a handler and the status it answered with.  The callers
\* are authenticated (authenticate_request returns a user) and send every
\* required field; a request that fails either test is answered 401 or 400
\* before any file is read.
NoId == <<>>
\* error is the text of the 'error' field where the claims read it, part by
\* part of its f-string, and <<>> elsewhere.
Exchange(op, status, user, upload_id) ==
    [op |-> op, status |-> status, user |-> user, upload_id |-> upload_id, error |-> <<>>]

InitUpload ==
    /\ now = 0
    /\ session_files = <<>>
    /\ chunk_files = <<>>
    /\ processed = <<>>
    /\ inits = 0
    /\ response = Exchange("none", 0, "", NoId)

\* time passes
Tick ==
    /\ now < MaxTime
    /\ now' = now + 1
    /\ UNCHANGED <<session_files, chunk_files, processed, inits, response>>

\* lines 724-774
init_chunked_upload(user, total_chunks) ==
    /\ UNCHANGED <<now, chunk_files, processed>>
    /\ LET upload_id == UploadId(user, now, total_chunks)
           upload_session == [upload_id       |-> upload_id,
                              user_id         |-> user,
                              total_chunks    |-> total_chunks,
                              chunks_received |-> 0,
                              chunks_data     |-> <<>>]
       IN  /\ inits < MaxInits
           /\ inits' = inits + 1
           /\ session_files' = Put(session_files, upload_id, upload_session)
           /\ response' = Exchange("init", 200, user, upload_id)

\* chunks_data[key] = {...}: a new key goes to the end, a known key keeps its place
SetKey(chunks_data, key) ==
    IF \E k \in 1..Len(chunks_data) : chunks_data[k] = key
    THEN chunks_data ELSE Append(chunks_data, key)

RECURSIVE SumReceived(_)
SumReceived(sessions) ==
    IF sessions = <<>> THEN 0
    ELSE Head(sessions).chunks_received + SumReceived(Tail(sessions))

RECURSIVE SeqOfSet(_)
SeqOfSet(S) == IF S = {} THEN <<>>
               ELSE LET x == CHOOSE y \in S : TRUE IN <<x>> \o SeqOfSet(S \ {x})

\* upload_chunk calls accepted by the sessions that are live or were finalized
Uploaded ==
    SumReceived(SeqOfSet({session_files[u] : u \in DOMAIN session_files}))
    + SumReceived([k \in 1..Len(processed) |-> processed[k].upload_session])

\* mutant: upload_chunk without the test of line 804
upload_chunk_any_user(user, upload_id, chunk_index) ==
    /\ UNCHANGED <<now, processed, inits>>
    /\ IF upload_id \notin DOMAIN session_files
       THEN /\ response' = Exchange("upload_chunk", 404, user, upload_id)
            /\ UNCHANGED <<session_files, chunk_files>>
       ELSE LET upload_session == session_files[upload_id]
                updated == [upload_session EXCEPT
                               !.chunks_received = @ + 1,
                               !.chunks_data = SetKey(@, StrOfInt(chunk_index))]
            IN  /\ Uploaded < MaxUploads
                /\ chunk_files' = Put(chunk_files, ChunkFile(upload_id, chunk_index),
                                      ChunkBytes(user, chunk_index))
                /\ session_files' = Put(session_files, upload_id, updated)
                /\ response' = Exchange("upload_chunk", 200, user, upload_id)

\* lines 776-838; the request sends the client's chunk of that index
upload_chunk(user, upload_id, chunk_index) ==
    /\ UNCHANGED <<now, processed, inits>>
    /\ IF upload_id \notin DOMAIN session_files
       THEN /\ response' = Exchange("upload_chunk", 404, user, upload_id)
            /\ UNCHANGED <<session_files, chunk_files>>
       ELSE IF session_files[upload_id].user_id # user
       THEN /\ response' = Exchange("upload_chunk", 403, user, upload_id)
            /\ UNCHANGED <<session_files, chunk_files>>
       ELSE LET upload_session == session_files[upload_id]
                updated == [upload_session EXCEPT
                               !.chunks_received = @ + 1,
                               !.chunks_data = SetKey(@, StrOfInt(chunk_index))]
            IN  /\ Uploaded < MaxUploads
                /\ chunk_files' = Put(chunk_files, ChunkFile(upload_id, chunk_index),
                                      ChunkBytes(user, chunk_index))
                /\ session_files' = Put(session_files, upload_id, updated)
                /\ response' = Exchange("upload_chunk", 200, user, upload_id)

\* sorted(chunks_data.keys(), key=int): insertion sort on int(key)
RECURSIVE InsertKey(_, _)
InsertKey(key, sorted) ==
    IF sorted = <<>> THEN <<key>>
    ELSE IF IntOfStr(key) < IntOfStr(Head(sorted)) THEN <<key>> \o sorted
    ELSE <<Head(sorted)>> \o InsertKey(key, Tail(sorted))

RECURSIVE SortKeys(_)
SortKeys(keys) ==
    IF keys = <<>> THEN <<>>
    ELSE InsertKey(keys[Len(keys)], SortKeys(SubSeq(keys, 1, Len(keys) - 1)))

\* mutant: the keys are taken as the dict holds them, in insertion order
ReadOrder_unsorted(chunks_data) == chunks_data

\* line 880: the order in which finalize reads the chunks
ReadOrder(chunks_data) == SortKeys(chunks_data)

\* lines 879-890: the chunk files that exist, written to the output in that order
RECURSIVE Reconstruct(_, _)
Reconstruct(upload_id, keys) ==
    IF keys = <<>> THEN <<>>
    ELSE LET chunk_file == <<upload_id, Head(keys)>>
         IN  (IF chunk_file \in DOMAIN chunk_files THEN chunk_files[chunk_file] ELSE <<>>)
             \o Reconstruct(upload_id, Tail(keys))

\* lines 840-916
finalize_chunked_upload(user, upload_id) ==
    /\ UNCHANGED <<now, inits>>
    /\ IF upload_id \notin DOMAIN session_files
       THEN /\ response' = Exchange("finalize", 404, user, upload_id)
            /\ UNCHANGED <<session_files, chunk_files, processed>>
       ELSE IF session_files[upload_id].user_id # user
       THEN /\ response' = Exchange("finalize", 403, user, upload_id)
            /\ UNCHANGED <<session_files, chunk_files, processed>>
       ELSE IF session_files[upload_id].chunks_received # session_files[upload_id].total_chunks
       THEN /\ response' =
                  [Exchange("finalize", 400, user, upload_id) EXCEPT
                      !.error = <<"Missing chunks: ", session_files[upload_id].chunks_received,
                                  "/", session_files[upload_id].total_chunks>>]
            /\ UNCHANGED <<session_files, chunk_files, processed>>
       ELSE LET upload_session == session_files[upload_id]
                keys == ReadOrder(upload_session.chunks_data)
                complete_audio == Reconstruct(upload_id, keys)
            IN  /\ chunk_files' = Remove(chunk_files,
                                         {<<upload_id, keys[k]>> : k \in 1..Len(keys)})
                /\ processed' = Append(processed, [audio |-> complete_audio,
                                                   upload_session |-> upload_session])
                /\ session_files' = Remove(session_files, {upload_id})
                /\ response' = Exchange("finalize", 200, user, upload_id)

\* the upload ids a client can name: those init_chunked_upload has handed out
KnownIds == DOMAIN session_files \cup
            {processed[k].upload_session.upload_id : k \in 1..Len(processed)}

(***************************************************************************)
(* src/serverless/api/catchup.py: parse_twitch_duration and                *)
(* compute_slice_parameters (src/aws_lambda/lambda_function.py holds the   *)
(* same two functions).  A string is the sequence of its characters.       *)
(***************************************************************************)
\* A value in a place that can hold None as well: None or Some(value).
Some(value) == [some |-> value]

IsDigit(c) == \E d \in 1..10 : Digits[d] = c
DigitValue(c) == (CHOOSE d \in 1..10 : Digits[d] = c) - 1

\* str(n) of a natural number
RECURSIVE Str(_)
Str(n) == IF n < 10 THEN <<Digits[n + 1]>>
          ELSE Str(n \div 10) \o <<Digits[(n % 10) + 1]>>

\* int(digits)
RECURSIVE IntOfDigits(_)
IntOfDigits(digits) ==
    IF digits = <<>> THEN 0
    ELSE 10 * IntOfDigits(SubSeq(digits, 1, Len(digits) - 1)) + DigitValue(digits[Len(digits)])

\* the start of the run of digits that ends at position k
RECURSIVE RunStart(_, _)
RunStart(string, k) ==
    IF k > 1 /\ IsDigit(string[k - 1]) THEN RunStart(string, k - 1) ELSE k

\* mutant: the first run of digits of the string, whatever letter follows it
Search_any_unit(string, unit) ==
    LET ends == {k \in 1..Len(string) :
                    /\ IsDigit(string[k])
                    /\ (k = Len(string) \/ ~IsDigit(string[k + 1]))}
    IN  IF ends = {} THEN None
        ELSE LET k == CHOOSE e \in ends : \A f \in ends : e <= f
             IN  [group1 |-> SubSeq(string, RunStart(string, k), k)]

\* re.search(r'(\d+)<unit>', string): the leftmost match is the whole run of
\* digits before the first unit letter that follows a digit
Search(string, unit) ==
    LET hits == {k \in 2..Len(string) : string[k] = unit /\ IsDigit(string[k - 1])}
    IN  IF hits = {} THEN None
        ELSE LET k == CHOOSE h \in hits : \A g \in hits : h <= g
             IN  [group1 |-> SubSeq(string, RunStart(string, k - 1), k - 1)]

\* catchup.py:203-225
parse_twitch_duration(duration_str) ==
    IF duration_str = <<>> THEN 0
    ELSE LET hours_match   == Search(duration_str, "h")
             minutes_match == Search(duration_str, "m")
             seconds_match == Search(duration_str, "s")
         IN  (IF hours_match # None THEN IntOfDigits(hours_match.group1) * 3600 ELSE 0)
             + (IF minutes_match # None THEN IntOfDigits(minutes_match.group1) * 60 ELSE 0)
             + (IF seconds_match # None THEN IntOfDigits(seconds_match.group1) ELSE 0)

\* mutant: the number is written without padding
Format02d_unpadded(n) == Str(n)

\* f"{n:02d}" of a natural number
Format02d(n) == IF n < 10 THEN <<"0">> \o Str(n) ELSE Str(n)

\* mutant: a recording as long as the window is sliced as well
compute_slice_parameters_strict(duration_str, window_minutes) ==
    LET available_seconds == parse_twitch_duration(duration_str)
        want_seconds == window_minutes * 60
    IN  IF available_seconds = 0
        THEN <<None, Some("Cannot determine VOD duration")>>
        ELSE IF available_seconds < want_seconds
        THEN <<[slice_option |-> None, actual_duration |-> available_seconds,
                from_end |-> FALSE], None>>
        ELSE LET slice_start_seconds == available_seconds - want_seconds
             IN  <<[slice_option |-> Some(TRUE), actual_duration |-> want_seconds,
                    from_end |-> TRUE,
                    start_time |-> Format02d(slice_start_seconds \div 3600) \o <<":">>
                                   \o Format02d((slice_start_seconds % 3600) \div 60) \o <<":">>
                                   \o Format02d(slice_start_seconds % 60),
                    start_seconds |-> slice_start_seconds], None>>

\* catchup.py:227-260: the pair (plan, error) it returns
compute_slice_parameters(duration_str, window_minutes) ==
    LET available_seconds == parse_twitch_duration(duration_str)
        want_seconds == window_minutes * 60
    IN  IF available_seconds = 0
        THEN <<None, Some("Cannot determine VOD duration")>>
        ELSE IF available_seconds <= want_seconds
        THEN <<[slice_option |-> None, actual_duration |-> available_seconds,
                from_end |-> FALSE], None>>
        ELSE LET slice_start_seconds == available_seconds - want_seconds
             IN  <<[slice_option |-> Some(TRUE), actual_duration |-> want_seconds,
                    from_end |-> TRUE,
                    start_time |-> Format02d(slice_start_seconds \div 3600) \o <<":">>
                                   \o Format02d((slice_start_seconds % 3600) \div 60) \o <<":">>
                                   \o Format02d(slice_start_seconds % 60),
                    start_seconds |-> slice_start_seconds], None>>

\* The duration strings of the recordings: at most one token per unit, in any
\* order, the number written as Twitch writes it.
HourValues == {0, 1, 2, 101}
MinuteValues == {0, 20, 30, 45, 90}
SecondValues == {0, 7, 59}
WindowChoices == {30, 60}
Tokens == (HourValues \X {"h"}) \cup (MinuteValues \X {"m"}) \cup (SecondValues \X {"s"})
TokenLists ==
    {<<>>} \cup {<<a>> : a \in Tokens}
    \cup {d \in Tokens \X Tokens : d[1][2] # d[2][2]}
    \cup {d \in Tokens \X Tokens \X Tokens :
              d[1][2] # d[2][2] /\ d[1][2] # d[3][2] /\ d[2][2] # d[3][2]}

RECURSIVE DurationString(_)
DurationString(tokens) ==
    IF tokens = <<>> THEN <<>>
    ELSE Str(Head(tokens)[1]) \o <<Head(tokens)[2]>> \o DurationString(Tail(tokens))

InitSlice ==
    \E tokens \in TokenLists, window_minutes \in WindowChoices :
        slice = [pc             |-> "called",
                 tokens         |-> tokens,
                 duration_str   |-> DurationString(tokens),
                 window_minutes |-> window_minutes,
                 parsed         |-> FALSE,
                 total_seconds  |-> 0,
                 computed       |-> FALSE,
                 returned       |-> <<None, None>>]

\* one call of parse_twitch_duration on the duration string
ParseDuration ==
    /\ slice.pc = "called"
    /\ ~slice.parsed
    /\ slice' = [slice EXCEPT !.parsed = TRUE,
                              !.total_seconds = parse_twitch_duration(slice.duration_str)]

\* one call of compute_slice_parameters on the duration string and the window
ComputeSlice ==
    /\ slice.pc = "called"
    /\ ~slice.computed
    /\ slice' = [slice EXCEPT
                    !.computed = TRUE,
                    !.returned = compute_slice_parameters(slice.duration_str,
                                                          slice.window_minutes)]

(***************************************************************************)
(* src/backend/main.py: merge_transcripts on one list of transcripts, and  *)
(* lines 197-209 of process_catchup_async on the text it returns           *)
(***************************************************************************)
Letters == <<"a", "b", "c", "d", "e">>

\* What a transcript of a list holds as text: nothing (the clip failed), one
\* blank (the service heard no speech), or words of its own.
TextKinds == {"empty", "blank", "words"}

Transcript(index, kind) ==
    [clip_id |-> <<"clip", index>>,
     index   |-> index,
     text    |-> CASE kind = "empty" -> <<>>
                   [] kind = "blank" -> <<" ">>
                   [] kind = "words" -> <<Letters[index + 1], Letters[index + 1]>>,
     error   |-> IF kind = "empty" THEN "Transcription failed" ELSE ""]

\* the orders in which n transcripts can stand in a list
Orders(n) == {p \in [1..n -> 0..(n - 1)] : \A a, b \in 1..n : a # b => p[a] # p[b]}

\* scenario C: seven clips, max_workers = 5, the clips 3 and 6 fail
ScenarioC ==
    transcribe_clips_parallel(TestClips(7),
                              [k \in 1..7 |-> IF k - 1 \in {3, 6} THEN "error" ELSE "demo"])

MergeFrame(transcripts) ==
    [pc |-> "called", transcripts |-> transcripts, combined_transcript |-> <<>>,
     task |-> [status |-> "summarizing", progress |-> 80,
               message |-> Msg("Generating AI summary...", 0), result |-> None]]

InitMerge ==
    \/ \E n \in 0..MaxSegments :
          \E p \in Orders(n), kinds \in [0..(n - 1) -> TextKinds] :
             merge = MergeFrame([k \in 1..n |-> Transcript(p[k], kinds[p[k]])])
    \/ merge = MergeFrame(ScenarioC)

\* main.py:196
MergeTranscripts ==
    /\ merge.pc = "called"
    /\ merge' = [merge EXCEPT !.pc = "merged",
                              !.combined_transcript = merge_transcripts(merge.transcripts)]

\* main.py:197-209: the summary, the result and the update to complete
StoreResult ==
    /\ merge.pc = "merged"
    /\ LET summary == generate_ai_summary(merge.combined_transcript)
           result == [summary        |-> summary,
                      fullTranscript |-> Prefix(merge.combined_transcript, TranscriptLimit),
                      clipsProcessed |-> Len(merge.transcripts)]
       IN  merge' = [merge EXCEPT
                        !.pc = "stored",
                        !.task = update_task_status(1 :> merge.task, 1, "complete", 100,
                                     Msg("Summary generated successfully!", 0), result)[1]]

(***************************************************************************)
(* src/backend/parallel_transcriber.py:166-267: the AssemblyAI calls of    *)
(* the clips of one batch.  jobs[k] is where the coroutine of clip k       *)
(* stands:                                                                 *)
(*   "uploading"   awaits _upload_audio_file                               *)
(*   "submitting"  awaits _submit_transcription_job                        *)
(*   "requesting"  awaits the GET of _poll_transcription_completion        *)
(*   "sleeping"    awaits asyncio.sleep(5) of the poll loop                *)
(*   "completed"   _real_transcribe_with_assemblyai has returned           *)
(*   "failed"      an exception left it; transcribe_single_clip returns    *)
(*                 the result with text '' and the error                   *)
(***************************************************************************)
\* the values of result['status'] of a transcript
JobStatuses == {"queued", "processing", "completed", "error"}

InitPoll == \E n \in 1..MaxJobs : jobs = [k \in 1..n |-> "uploading"]

\* lines 196-214
UploadReturns(k) ==
    /\ jobs[k] = "uploading"
    /\ \E http \in {200, 500} :
          jobs' = [jobs EXCEPT ![k] = IF http = 200 THEN "submitting" ELSE "failed"]

\* lines 216-241
SubmitReturns(k) ==
    /\ jobs[k] = "submitting"
    /\ \E http \in {200, 500} :
          jobs' = [jobs EXCEPT ![k] = IF http = 200 THEN "requesting" ELSE "failed"]

\* lines 250-267: one GET of the loop and what the loop does with the answer
PollAnswers(k) ==
    /\ jobs[k] = "requesting"
    /\ \E http \in {200, 500}, status \in JobStatuses :
          jobs' = [jobs EXCEPT ![k] =
                      IF http # 200 THEN "failed"
                      ELSE IF status = "completed" THEN "completed"
                      ELSE IF status = "error" THEN "failed"
                      ELSE "sleeping"]

\* line 265: asyncio.sleep(5) is over, the loop goes round
SleepDone(k) ==
    /\ jobs[k] = "sleeping"
    /\ jobs' = [jobs EXCEPT ![k] = "requesting"]

(***************************************************************************)
(* src/serverless/api/catchup.py:262-482: one call of                      *)
(* create_clips_for_vod_range on a slice plan.  extract is its frame:      *)
(*   slice_params    the plan compute_slice_parameters returned            *)
(*   requests        the bodies of the POSTs to helix/clips, in order      *)
(*   created_clips   what create_twitch_clips_for_range has collected      *)
(*   i               its loop variable                                     *)
(*   processed_clips what wait_for_clip_processing has collected           *)
(*   j               the position of its for loop in clip_ids (1-based)    *)
(*   elapsed         time.time() - start_time, in seconds                  *)
(*   error           the error of the pair returned, "" for none           *)
(***************************************************************************)
\* the recordings and the windows (in minutes) of the calls
ExtractDurations ==
    {<< <<45, "s">> >>, << <<2, "m">> >>, << <<3, "m">>, <<30, "s">> >>, << <<1, "h">> >>}
ExtractWindows == 1..MaxWindow

\* catchup.py:463  max_wait_seconds = 25
max_wait_seconds == 25
\* how long one GET of helix/clips takes (its timeout is 5 s); seconds
GetSeconds == {0, 4}
\* catchup.py:385  time.sleep(2)
RoundSleep == 2

\* what the POST of helix/clips answers
PostAnswers == {"202", "202 without data", "500", "exception"}
\* what the GET of helix/clips answers
GetAnswers == {"url", "no url", "exception"}

\* extract_twitch_audio, lines 525-546: the plan is computed without error and
\* create_clips_for_vod_range is called with it
InitExtract ==
    \E tokens \in ExtractDurations, window_minutes \in ExtractWindows :
       LET returned == compute_slice_parameters(DurationString(tokens), window_minutes)
       IN  /\ returned[2] = None
           /\ extract = [pc              |-> "called",
                         slice_params    |-> returned[1],
                         requests        |-> <<>>,
                         created_clips   |-> <<>>,
                         i               |-> 0,
                         processed_clips |-> <<>>,
                         j               |-> 0,
                         elapsed         |-> 0,
                         clip_files      |-> <<>>,
                         combined_file   |-> None,
                         error           |-> ""]

\* line 275: (duration_seconds + 59) // 60
num_clips(duration_seconds) == (duration_seconds + 59) \div 60

\* lines 265-276, and 459-460 when nothing comes back
EnterCreate ==
    /\ extract.pc = "called"
    /\ extract' = IF extract.slice_params.slice_option = None
                  THEN [extract EXCEPT !.pc = "failed",
                                       !.error = "Failed to create any clips"]
                  ELSE [extract EXCEPT !.pc = "creating"]

\* lines 287-333: one turn of the for loop
PostClip ==
    /\ extract.pc = "creating"
    /\ LET start_seconds == extract.slice_params.start_seconds
           duration_seconds == extract.slice_params.actual_duration
           clip_start == start_seconds + extract.i * 60
           clip_duration == Min(60, duration_seconds - extract.i * 60)
       IN  /\ extract.i < num_clips(duration_seconds)
           /\ \E answer \in PostAnswers :
                 extract' = [extract EXCEPT
                    !.requests = Append(@, [vod_offset |-> clip_start,
                                            duration   |-> clip_duration]),
                    !.created_clips =
                        IF answer = "202"
                        THEN Append(@, [id         |-> <<"clip", extract.i + 1>>,
                                        start_time |-> clip_start,
                                        duration   |-> clip_duration,
                                        sequence   |-> extract.i + 1])
                        ELSE @,
                    !.i = @ + 1]

\* lines 335-336 and 458-460
CreateReturns ==
    /\ extract.pc = "creating"
    /\ extract.i >= num_clips(extract.slice_params.actual_duration)
    /\ extract' = IF extract.created_clips = <<>>
                  THEN [extract EXCEPT !.pc = "failed",
                                       !.error = "Failed to create any clips"]
                  ELSE [extract EXCEPT !.pc = "waiting"]

ProcessedIds == {extract.processed_clips[k].id : k \in 1..Len(extract.processed_clips)}

\* mutant: the while loop tests only whether clips are missing
WaitLoopTest_no_budget ==
    /\ extract.pc = "waiting"
    /\ extract' =
          IF Len(extract.processed_clips) < Len(extract.created_clips)
          THEN [extract EXCEPT !.pc = "polling", !.j = 1]
          ELSE IF extract.processed_clips = <<>>
          THEN [extract EXCEPT !.pc = "failed",
                               !.error = "No clips were processed in time"]
          ELSE [extract EXCEPT !.pc = "downloading"]

\* line 355, the test of the while loop, and lines 387-388 and 464-465 when it fails
WaitLoopTest ==
    /\ extract.pc = "waiting"
    /\ extract' =
          IF /\ Len(extract.processed_clips) < Len(extract.created_clips)
             /\ extract.elapsed < max_wait_seconds
          THEN [extract EXCEPT !.pc = "polling", !.j = 1]
          ELSE IF extract.processed_clips = <<>>
          THEN [extract EXCEPT !.pc = "failed",
                               !.error = "No clips were processed in time"]
          ELSE [extract EXCEPT !.pc = "downloading"]

\* lines 356-382: one turn of the for loop over clip_ids
PollClip ==
    /\ extract.pc = "polling"
    /\ extract.j <= Len(extract.created_clips)
    /\ LET clip_info == extract.created_clips[extract.j]
       IN  IF clip_info.id \in ProcessedIds
           THEN extract' = [extract EXCEPT !.j = @ + 1]
           ELSE \E answer \in GetAnswers, seconds \in GetSeconds :
                   extract' = [extract EXCEPT
                      !.processed_clips = IF answer = "url" THEN Append(@, clip_info) ELSE @,
                      !.elapsed = @ + seconds,
                      !.j = @ + 1]

\* lines 384-385: the for loop is over
EndRound ==
    /\ extract.pc = "polling"
    /\ extract.j > Len(extract.created_clips)
    /\ extract' = [extract EXCEPT
          !.pc = "waiting",
          !.elapsed = IF Len(extract.processed_clips) < Len(extract.created_clips)
                      THEN @ + RoundSleep ELSE @]

\* requests.get(clip_url, stream=True) and the file written from it: the
\* status of the answer and the size of the file, in bytes
DownloadAnswers ==
    {[status_code |-> 404, size |-> 0], [status_code |-> 200, size |-> 0],
     [status_code |-> 200, size |-> 1], [status_code |-> 200, size |-> 2]}

\* sorted(clips, key = sequence): insertion sort, stable as Python's
RECURSIVE InsertBySequence(_, _)
InsertBySequence(clip, sorted) ==
    IF sorted = <<>> THEN <<clip>>
    ELSE IF clip.sequence < Head(sorted).sequence THEN <<clip>> \o sorted
    ELSE <<Head(sorted)>> \o InsertBySequence(clip, Tail(sorted))

RECURSIVE SortBySequence(_)
SortBySequence(clips) ==
    IF clips = <<>> THEN <<>>
    ELSE InsertBySequence(clips[Len(clips)], SortBySequence(SubSeq(clips, 1, Len(clips) - 1)))

\* lines 398-426: the files of the clips whose download gave a file that is
\* not empty, in the order of the loop; a file holds the seconds of its clip
RECURSIVE ClipFiles(_, _, _)
ClipFiles(sorted, answers, i) ==
    IF i > Len(sorted) THEN <<>>
    ELSE IF answers[i].status_code = 200 /\ answers[i].size > 0
    THEN <<[name     |-> <<"clip", i, sorted[i].id>>,
            size     |-> answers[i].size,
            content  |-> <<sorted[i].sequence>>]>> \o ClipFiles(sorted, answers, i + 1)
    ELSE ClipFiles(sorted, answers, i + 1)

\* max(clip_files, key = getsize): the first of the largest files
LargestFile(clip_files) ==
    clip_files[CHOOSE k \in 1..Len(clip_files) :
                  /\ \A m \in 1..Len(clip_files) : clip_files[m].size <= clip_files[k].size
                  /\ \A m \in 1..(k - 1) : clip_files[m].size < clip_files[k].size]

\* download_and_combine_clips: <<file, error>>
download_and_combine_clips(clips, answers) ==
    LET clip_files == ClipFiles(SortBySequence(clips), answers, 1)
    IN  IF clip_files = <<>> THEN <<None, "No clips were downloaded successfully">>
        ELSE IF Len(clip_files) = 1 THEN <<clip_files[1], "">>
        ELSE <<LargestFile(clip_files), "">>

\* lines 467-480: download_and_combine_clips and what becomes of its answer
Download ==
    /\ extract.pc = "downloading"
    /\ \E answers \in [1..Len(extract.processed_clips) -> DownloadAnswers] :
          LET returned == download_and_combine_clips(extract.processed_clips, answers)
          IN  extract' =
                 IF returned[2] # ""
                 THEN [extract EXCEPT !.pc = "failed", !.error = "Clip download failed"]
                 ELSE [extract EXCEPT
                          !.pc = "returned",
                          !.clip_files = ClipFiles(SortBySequence(extract.processed_clips),
                                                   answers, 1),
                          !.combined_file = returned[1]]

(***************************************************************************)
(* src/backend/stream_processor.py:56-151: the _create_*_clips loops of    *)
(* the tasks in flight, with the clock they read.  clipgen.clock is        *)
(* int(time.time()), counted from the start of the run; clipgen.procs[t]   *)
(* is the frame of the create_parallel_clips call of task t.               *)
(***************************************************************************)
ClipPlatforms == {"twitch", "youtube"}
CreateDurations == {30}

\* lines 66, 94, 122: max(1, duration_minutes // per)
clips_needed(platform, duration_minutes) ==
    Max(1, duration_minutes \div MinutesPerClip(platform))

\* lines 139-151: the path of the audio file (under self.temp_dir, which all
\* the calls share)
_mock_extract_audio(segment_index, time) == <<"mock_audio", segment_index, time>>

\* lines 72-80 (and 98-106, 127-135): the clip of turn i, made at second `time`
TimedClip(platform, duration_minutes, i, time) ==
    [id         |-> <<platform, "clip", i, time>>,
     platform   |-> platform,
     start_time |-> i * MinutesPerClip(platform) * 60,
     duration   |-> Min(MinutesPerClip(platform) * 60,
                        (duration_minutes - i * MinutesPerClip(platform)) * 60),
     audio_file |-> _mock_extract_audio(i, time)]

IdleProc == [pc |-> "none", platform |-> "", duration_minutes |-> 0, i |-> 0, clips |-> <<>>]

InitClips == clipgen = [clock |-> 0, procs |-> [t \in TaskIds |-> IdleProc]]

\* a second passes
ClockTick ==
    /\ clipgen.clock < MaxClock
    /\ clipgen' = [clipgen EXCEPT !.clock = @ + 1]

\* main.py:177 and lines 28-43: create_parallel_clips is called for task t
CallCreate(t, platform, duration_minutes) ==
    /\ clipgen.procs[t].pc = "none"
    /\ clipgen' = [clipgen EXCEPT !.procs[t] =
                      [IdleProc EXCEPT !.pc = "creating", !.platform = platform,
                                       !.duration_minutes = duration_minutes]]

\* one turn of the for loop of task t: the sleep is over and the clip is made
CreateClip(t) ==
    LET proc == clipgen.procs[t]
    IN  /\ proc.pc = "creating"
        /\ proc.i < clips_needed(proc.platform, proc.duration_minutes)
        /\ clipgen' = [clipgen EXCEPT
              !.procs[t].clips = Append(@, TimedClip(proc.platform, proc.duration_minutes,
                                                     proc.i, clipgen.clock)),
              !.procs[t].i = @ + 1]

\* the loop of task t is over: return clips
ClipsReturn(t) ==
    LET proc == clipgen.procs[t]
    IN  /\ proc.pc = "creating"
        /\ proc.i >= clips_needed(proc.platform, proc.duration_minutes)
        /\ clipgen' = [clipgen EXCEPT !.procs[t].pc = "returned"]

(***************************************************************************)
(* aws_backend/src/transcription.py:776-838: upload_chunk calls that run   *)
(* at the same time on the files under /tmp.  The handler reads the        *)
(* session file (line 800), changes its copy and writes the file back      *)
(* (line 822); nothing holds a lock in between.  calls[c] is the frame of  *)
(* call c: "loaded" after line 806, with upload_session the copy it read.  *)
(***************************************************************************)
Callers == 1..MaxCallers

IdleCall == [pc |-> "none", user |-> "", upload_id |-> NoId, chunk_index |-> 0,
             upload_session |-> None, status |-> 0]

InitCalls == calls = [c \in Callers |-> IdleCall]

\* lines 780-806: the request is read, the session file is loaded and the
\* owner is checked
LoadSession(c, user, upload_id, chunk_index) ==
    /\ calls[c].pc = "none"
    /\ calls' = [calls EXCEPT ![c] =
          IF upload_id \notin DOMAIN session_files
          THEN [IdleCall EXCEPT !.pc = "done", !.user = user, !.upload_id = upload_id,
                                !.chunk_index = chunk_index, !.status = 404]
          ELSE IF session_files[upload_id].user_id # user
          THEN [IdleCall EXCEPT !.pc = "done", !.user = user, !.upload_id = upload_id,
                                !.chunk_index = chunk_index, !.status = 403]
          ELSE [IdleCall EXCEPT !.pc = "loaded", !.user = user, !.upload_id = upload_id,
                                !.chunk_index = chunk_index,
                                !.upload_session = session_files[upload_id]]]
    /\ UNCHANGED uploadVars

\* lines 808-833: the chunk file is written, the copy of the session is
\* changed and written over the session file, and 200 is answered
StoreChunk(c) ==
    /\ calls[c].pc = "loaded"
    /\ LET call == calls[c]
           updated == [call.upload_session EXCEPT
                          !.chunks_received = @ + 1,
                          !.chunks_data = SetKey(@, StrOfInt(call.chunk_index))]
       IN  /\ chunk_files' = Put(chunk_files, ChunkFile(call.upload_id, call.chunk_index),
                                 ChunkBytes(call.user, call.chunk_index))
           /\ session_files' = Put(session_files, call.upload_id, updated)
           /\ response' = Exchange("upload_chunk", 200, call.user, call.upload_id)
           /\ calls' = [calls EXCEPT ![c].pc = "done", ![c].status = 200,
                                     ![c].upload_session = updated]
    /\ UNCHANGED <<now, processed, inits>>

(***************************************************************************)
(* aws_backend/src/transcription.py:840-916: finalize_chunked_upload calls *)
(* that run at the same time on the files under /tmp.  Nothing holds a     *)
(* lock between the load of the session file (line 862), the reads and     *)
(* removals of the chunk files (lines 880-888) and the removal of the      *)
(* session file (line 899).  calls[c] is the frame of call c; audio is     *)
(* what the call has written to its output so far.                         *)
(***************************************************************************)
IdleFinalize == [pc |-> "none", user |-> "", upload_id |-> NoId, upload_session |-> None,
                 keys |-> <<>>, audio |-> <<>>, status |-> 0]

InitFinalizes == calls = [c \in Callers |-> IdleFinalize]

\* lines 844-875: the request is read, the session file is loaded, the owner
\* and the count of chunks are checked
LoadFinalize(c, user, upload_id) ==
    /\ calls[c].pc = "none"
    /\ calls' = [calls EXCEPT ![c] =
          LET call == [IdleFinalize EXCEPT !.user = user, !.upload_id = upload_id]
          IN  IF upload_id \notin DOMAIN session_files
              THEN [call EXCEPT !.pc = "done", !.status = 404]
              ELSE IF session_files[upload_id].user_id # user
              THEN [call EXCEPT !.pc = "done", !.status = 403]
              ELSE IF session_files[upload_id].chunks_received
                         # session_files[upload_id].total_chunks
              THEN [call EXCEPT !.pc = "done", !.status = 400]
              ELSE [call EXCEPT !.pc = "reconstructing",
                                !.upload_session = session_files[upload_id],
                                !.keys = ReadOrder(session_files[upload_id].chunks_data)]]
    /\ UNCHANGED uploadVars

\* lines 880-886 and 889-890: the next chunk file is looked for and, when it
\* is there, read into the output
ReadChunk(c) ==
    /\ calls[c].pc = "reconstructing"
    /\ calls[c].keys # <<>>
    /\ LET chunk_file == <<calls[c].upload_id, Head(calls[c].keys)>>
       IN  calls' = IF chunk_file \in DOMAIN chunk_files
                    THEN [calls EXCEPT ![c].pc = "removing",
                                       ![c].audio = @ \o chunk_files[chunk_file]]
                    ELSE [calls EXCEPT ![c].keys = Tail(@)]
    /\ UNCHANGED uploadVars

\* line 888, and 911-916 when os.remove finds the file gone: the error is
\* caught and answered 500, with the session file left where it is
RemoveChunk(c) ==
    /\ calls[c].pc = "removing"
    /\ LET chunk_file == <<calls[c].upload_id, Head(calls[c].keys)>>
       IN  IF chunk_file \in DOMAIN chunk_files
           THEN /\ chunk_files' = Remove(chunk_files, {chunk_file})
                /\ calls' = [calls EXCEPT ![c].pc = "reconstructing", ![c].keys = Tail(@)]
                /\ UNCHANGED response
           ELSE /\ calls' = [calls EXCEPT ![c].pc = "done", ![c].status = 500]
                /\ response' = Exchange("finalize", 500, calls[c].user, calls[c].upload_id)
                /\ UNCHANGED chunk_files
    /\ UNCHANGED <<now, session_files, processed, inits>>

\* lines 892-909: the output goes to process_complete_audio, the session file
\* is removed if it is still there, and 200 is answered
ProcessAudio(c) ==
    /\ calls[c].pc = "reconstructing"
    /\ calls[c].keys = <<>>
    /\ processed' = Append(processed, [audio |-> calls[c].audio,
                                       upload_session |-> calls[c].upload_session])
    /\ session_files' = Remove(session_files, {calls[c].upload_id})
    /\ response' = Exchange("finalize", 200, calls[c].user, calls[c].upload_id)
    /\ calls' = [calls EXCEPT ![c].pc = "done", ![c].status = 200]
    /\ UNCHANGED <<now, chunk_files, inits>>

(***************************************************************************)
(* aws_backend/src/transcription.py:141-239 and credits.py:160-282:        *)
(* catchup_proxy calls of one user that run at the same time.              *)
(* proxy.credits_balance is the user's item in the users table,            *)
(* proxy.granted what the user had at the start, proxy.calls[c] the frame  *)
(* of call c.  check_credits and deduct_credits each read the item with    *)
(* get_item; deduct_credits writes the balance it computed from its read   *)
(* with update_item (SET credits_balance = :balance), with no condition.   *)
(* The user is not an admin.                                               *)
(***************************************************************************)
\* credits.py:47-52
CREDIT_COSTS(service) ==
    CASE service = "catchup_30min" -> 300
      [] service = "catchup_60min" -> 600

\* f'catchup_{duration_minutes}min'
CatchupService(duration_minutes) ==
    IF duration_minutes = 30 THEN "catchup_30min" ELSE "catchup_60min"

\* what the user holds when the calls start
StartBalances == {0, 300, 900}

IdleRequest == [pc |-> "none", credits_needed |-> 0, balance |-> 0, current_balance |-> 0,
                deducted |-> FALSE, status |-> 0]

InitProxy ==
    \E b \in StartBalances :
        proxy = [credits_balance |-> b, granted |-> b,
                 calls |-> [c \in Callers |-> IdleRequest]]

\* check_credits(user_id, required_credits) for a user who is in the table
check_credits(current_balance, required_credits) ==
    <<current_balance >= required_credits, current_balance>>

\* transcription.py:162-190: the cost is looked up and the balance checked
CheckCredits(c, duration_minutes) ==
    /\ proxy.calls[c].pc = "none"
    /\ LET credits_needed == CREDIT_COSTS(CatchupService(duration_minutes))
           checked == check_credits(proxy.credits_balance, credits_needed)
       IN  proxy' = [proxy EXCEPT !.calls[c] =
              IF ~checked[1]
              THEN [@ EXCEPT !.pc = "done", !.status = 402,
                             !.credits_needed = credits_needed, !.balance = checked[2]]
              ELSE [@ EXCEPT !.pc = "processing",
                             !.credits_needed = credits_needed, !.balance = checked[2]]]

\* transcription.py:192-201 and 226-231: process_catchup_request returns
\* success or an error, or raises
ProcessReturns(c) ==
    /\ proxy.calls[c].pc = "processing"
    /\ \E outcome \in {"success", "error", "raise"} :
          proxy' = [proxy EXCEPT !.calls[c] =
             CASE outcome = "success" -> [@ EXCEPT !.pc = "deducting"]
               [] outcome = "error"   -> [@ EXCEPT !.pc = "done", !.status = 400]
               [] outcome = "raise"   -> [@ EXCEPT !.pc = "done", !.status = 500]]

\* credits.py:166-182: deduct_credits reads the item; on a balance below the
\* cost it returns False, which catchup_proxy does not look at
\* (transcription.py:206-225)
DeductRead(c) ==
    /\ proxy.calls[c].pc = "deducting"
    /\ proxy' = [proxy EXCEPT !.calls[c] =
          IF proxy.credits_balance < proxy.calls[c].credits_needed
          THEN [@ EXCEPT !.pc = "done", !.status = 200,
                         !.current_balance = proxy.credits_balance]
          ELSE [@ EXCEPT !.pc = "updating", !.current_balance = proxy.credits_balance]]

\* credits.py:184-210 and transcription.py:219-225: the new balance is
\* written and 200 is answered
DeductWrite(c) ==
    /\ proxy.calls[c].pc = "updating"
    /\ proxy' = [proxy EXCEPT
          !.credits_balance = proxy.calls[c].current_balance - proxy.calls[c].credits_needed,
          !.calls[c] = [@ EXCEPT !.pc = "done", !.status = 200, !.deducted = TRUE]]

(***************************************************************************)
(* src/serverless/api/catchup.py:914-955: extract_key_moments_with_-       *)
(* timestamps on the transcript of a Twitch recording, with the slice plan *)
(* and the vod_id in its metadata.  The transcript is its number of words; *)
(* slice is the frame of the call.                                         *)
(***************************************************************************)
\* len(transcript.split()) of the transcripts of the model, each of 100
\* characters or more
WordCounts == {60, 120, 600}

InitMoments ==
    \E tokens \in TokenLists, window_minutes \in WindowChoices, words \in WordCounts :
       LET returned == compute_slice_parameters(DurationString(tokens), window_minutes)
       IN  /\ returned[2] = None
           /\ slice = [pc           |-> "moments",
                       slice_params |-> returned[1],
                       words        |-> words,
                       chunk_size   |-> Max(50, words \div 10),
                       i            |-> 0,
                       moments      |-> <<>>]

\* lines 930-943: the deep link of a moment, as the second it points at, or
\* the URL of the recording
DeepLink(slice_params, moment_seconds) ==
    IF slice_params.from_end
    THEN LET start_offset == parse_twitch_duration(slice_params.start_time)
             absolute_timestamp == start_offset + moment_seconds
         IN  [t |-> absolute_timestamp]
    ELSE [vod_url |-> TRUE]

\* lines 925-949: one turn of the for loop
ExtractMoment ==
    /\ slice.pc = "moments"
    /\ slice.i < slice.words
    /\ LET total_seconds == slice.slice_params.actual_duration
           moment_seconds == (total_seconds * slice.i) \div slice.words
       IN  slice' = [slice EXCEPT
              !.moments = Append(@, [moment_seconds |-> moment_seconds,
                                     deep_link |-> DeepLink(slice.slice_params,
                                                            moment_seconds)]),
              !.i = @ + slice.chunk_size]

\* line 951: return moments[:5]
ReturnMoments ==
    /\ slice.pc = "moments"
    /\ slice.i >= slice.words
    /\ slice' = [slice EXCEPT !.pc = "returned", !.moments = Prefix(@, 5)]

(***************************************************************************)
(* src/serverless/api/catchup.py:1143-1286 (handler.do_POST) and           *)
(* src/aws_lambda/lambda_function.py:23-164 (lambda_handler and            *)
(* process_catchup_request): the two serverless entry points, which answer *)
(* in one request.  handler[c] is the frame of request c: the entry point, *)
(* whether an audio file and a transcript were obtained, the HTTP status   *)
(* and the 'status' field of the body ("" when the body has none).         *)
(***************************************************************************)
NoRequest == [pc |-> "none", entry |-> "", extracted |-> FALSE, transcribed |-> FALSE,
              code |-> 0, status |-> ""]

InitHandlers == handler = [c \in Callers |-> NoRequest]

Answer(frame, code, status) == [frame EXCEPT !.pc = "done", !.code = code, !.status = status]

\* catchup.py:1143-1182: the body is read and validated; valid is
\* detect_platform(stream_url)['valid']
PostRequest(c, valid, duration_minutes) ==
    /\ handler[c].pc = "none"
    /\ handler' = [handler EXCEPT ![c] =
          IF duration_minutes \notin {30, 60} \/ ~valid
          THEN Answer([@ EXCEPT !.entry = "do_POST"], 400, "")
          ELSE [@ EXCEPT !.entry = "do_POST", !.pc = "post_extracting"]]

\* catchup.py:1184-1206 and 1268-1286: extract_stream_audio returns a file,
\* or an error, or raises
PostExtraction(c) ==
    /\ handler[c].pc = "post_extracting"
    /\ \E outcome \in {"audio", "error", "raise"} :
          handler' = [handler EXCEPT ![c] =
             CASE outcome = "audio" -> [@ EXCEPT !.pc = "post_transcribing", !.extracted = TRUE]
               [] outcome = "error" -> Answer(@, 200, "complete")
               [] outcome = "raise" -> Answer(@, 500, "failed")]

\* catchup.py:1207-1275: transcribe_with_assemblyai returns a transcript or
\* None; with a transcript the summary, or the fallback summary, is added
PostTranscription(c) ==
    /\ handler[c].pc = "post_transcribing"
    /\ \E outcome \in {"transcript", "none"} :
          handler' = [handler EXCEPT ![c] =
             IF outcome = "transcript"
             THEN Answer([@ EXCEPT !.transcribed = TRUE], 200, "complete")
             ELSE Answer(@, 200, "complete")]

\* lambda_function.py:23-39: the body is read; nothing is validated
LambdaRequest(c) ==
    /\ handler[c].pc = "none"
    /\ handler' = [handler EXCEPT ![c] =
          [@ EXCEPT !.entry = "lambda_handler", !.pc = "lambda_extracting"]]

\* lambda_function.py:66-134 and 162-164: the stream and its recording are
\* looked up and the segment is downloaded
LambdaDownload(c) ==
    /\ handler[c].pc = "lambda_extracting"
    /\ \E outcome \in {"lookup_error", "raise", "no_audio", "audio"} :
          handler' = [handler EXCEPT ![c] =
             CASE outcome = "lookup_error" -> Answer(@, 200, "error")
               [] outcome = "raise"        -> Answer(@, 200, "error")
               [] outcome = "no_audio"     -> Answer(@, 200, "complete")
               [] outcome = "audio" ->
                      [@ EXCEPT !.pc = "lambda_transcribing", !.extracted = TRUE]]

\* lambda_function.py:136-160: transcribe_audio_file returns a transcript or
\* None; with a transcript the summary is added
LambdaTranscription(c) ==
    /\ handler[c].pc = "lambda_transcribing"
    /\ \E outcome \in {"transcript", "none"} :
          handler' = [handler EXCEPT ![c] =
             IF outcome = "transcript"
             THEN Answer([@ EXCEPT !.transcribed = TRUE], 200, "complete")
             ELSE Answer(@, 200, "error")]

(***************************************************************************)
(* Idle values of the other components                                     *)
(***************************************************************************)
IdleTranscriber == tr = [pc |-> "idle"]

IdleUpload == InitUpload

IdleSlice == slice = [pc |-> "idle"]

IdleMerge == merge = [pc |-> "idle"]

IdlePoll == jobs = <<>>

IdleGate == credit_gate = "allow"

IdleExtract == extract = [pc |-> "idle"]

\* no create_parallel_clips call is in flight
IdleClips == clipgen = <<>>

\* no upload_chunk call is split into its read and its write
IdleRace == calls = <<>>

\* no catchup_proxy call is in flight
IdleProxy == proxy = <<>>

\* no serverless request is in flight
IdleHandler == handler = <<>>

IdleTask ==
    /\ active_tasks = <<>>
    /\ worker = [t \in TaskIds |-> IdleWorker]
    /\ api_response = [op |-> "none", code |-> 0, task_id |-> 0]

InitTaskSpec == InitTask /\ IdleTranscriber /\ IdleUpload /\ IdleSlice /\ IdleMerge /\ IdlePoll /\ IdleGate /\ IdleExtract /\ IdleClips /\ IdleRace /\ IdleProxy /\ IdleHandler

NextTask ==
    \/ \E u \in StreamUrls, d \in DurationChoices :
          request_catchup(u, d) /\ UNCHANGED <<trVars, uploadVars, sliceVars, mergeVars, pollVars, gateVars, extractVars, clipVars, raceVars, proxyVars, handlerVars>>
    \/ \E t \in TaskIds : StartProcessing(t) /\ UNCHANGED <<trVars, uploadVars, sliceVars, mergeVars, pollVars, gateVars, extractVars, clipVars, raceVars, proxyVars, handlerVars>>
    \/ \E t \in TaskIds : ExtractionReturns(t) /\ UNCHANGED <<trVars, uploadVars, sliceVars, mergeVars, pollVars, gateVars, extractVars, clipVars, raceVars, proxyVars, handlerVars>>
    \/ \E t \in TaskIds : ExtractionFails(t) /\ UNCHANGED <<trVars, uploadVars, sliceVars, mergeVars, pollVars, gateVars, extractVars, clipVars, raceVars, proxyVars, handlerVars>>
    \/ \E t \in TaskIds : TranscriptionReturns(t) /\ UNCHANGED <<trVars, uploadVars, sliceVars, mergeVars, pollVars, gateVars, extractVars, clipVars, raceVars, proxyVars, handlerVars>>
    \/ \E t \in TaskIds : Summarize(t) /\ UNCHANGED <<trVars, uploadVars, sliceVars, mergeVars, pollVars, gateVars, extractVars, clipVars, raceVars, proxyVars, handlerVars>>
    \/ \E t \in TaskIds : Cleanup(t) /\ UNCHANGED <<trVars, uploadVars, sliceVars, mergeVars, pollVars, gateVars, extractVars, clipVars, raceVars, proxyVars, handlerVars>>

SpecTask == InitTaskSpec /\ [][NextTask]_vars

(***************************************************************************)
(* Claims on the task orchestrator                                         *)
(***************************************************************************)
\* The code's name of the spec's state `extracting` is "extracting_stream".
StatusRank(status) ==
    CASE status = "initialized"       -> 0
      [] status = "extracting_stream" -> 1
      [] status = "transcribing"      -> 2
      [] status = "summarizing"       -> 3
      [] status = "complete"          -> 4
      [] status = "failed"            -> 5

AllowedMove(a, b) ==
    \/ StatusRank(a) < 4 /\ StatusRank(b) = StatusRank(a) + 1
    \/ StatusRank(a) < 4 /\ b = "failed"

\* C1: the status of a task starts at initialized; every change of it is one
\* step forward along initialized -> extracting -> transcribing -> summarizing
\* -> complete, or a move to failed from one of the first four; complete and
\* failed are never left.
C1_StatusForward ==
    [][\A t \in TaskIds :
          /\ (t \notin DOMAIN active_tasks /\ t \in DOMAIN active_tasks')
                => active_tasks'[t].status = "initialized"
          /\ (t \in DOMAIN active_tasks /\ t \in DOMAIN active_tasks'
                /\ active_tasks'[t].status # active_tasks[t].status)
                => AllowedMove(active_tasks[t].status, active_tasks'[t].status)]_vars

\* one task went all the way to complete while another one failed
C1_Witness ==
    /\ \E t \in DOMAIN active_tasks : active_tasks[t].status = "complete"
    /\ \E t \in DOMAIN active_tasks : active_tasks[t].status = "failed"

\* C2: a task of the map has a non-null result exactly when its status is complete.
C2_ResultIffComplete ==
    \A t \in DOMAIN active_tasks :
        (active_tasks[t].result # None) <=> (active_tasks[t].status = "complete")

\* a complete task with its result beside a failed one without
C2_Witness ==
    /\ \E t \in DOMAIN active_tasks :
          active_tasks[t].status = "complete" /\ active_tasks[t].result # None
    /\ \E t \in DOMAIN active_tasks :
          active_tasks[t].status = "failed" /\ active_tasks[t].result = None

AllFailed(transcripts) ==
    /\ transcripts # <<>>
    /\ \A k \in 1..Len(transcripts) : transcripts[k].error # ""

\* C3: a task all of whose segments failed to transcribe ends in failed, never
\* in complete with a summary of the empty transcript.
C3_AllFailedEndsFailed ==
    \A t \in DOMAIN active_tasks :
        (worker[t].pc = "sleeping" /\ AllFailed(worker[t].transcripts))
            => /\ active_tasks[t].status = "failed"
               /\ active_tasks[t].result = None

InitTranscribeSpec == InitTranscriber /\ IdleTask /\ IdleUpload /\ IdleSlice /\ IdleMerge /\ IdlePoll /\ IdleGate /\ IdleExtract /\ IdleClips /\ IdleRace /\ IdleProxy /\ IdleHandler

NextTranscribe ==
    \/ Enter /\ UNCHANGED <<taskVars, uploadVars, sliceVars, mergeVars, pollVars, gateVars, extractVars, clipVars, raceVars, proxyVars, handlerVars>>
    \/ StartBatch /\ UNCHANGED <<taskVars, uploadVars, sliceVars, mergeVars, pollVars, gateVars, extractVars, clipVars, raceVars, proxyVars, handlerVars>>
    \/ \E k \in 1..MaxClips : ClipStarts(k) /\ UNCHANGED <<taskVars, uploadVars, sliceVars, mergeVars, pollVars, gateVars, extractVars, clipVars, raceVars, proxyVars, handlerVars>>
    \/ \E k \in 1..MaxClips, o \in ClipOutcomes :
          ClipFinishes(k, o) /\ UNCHANGED <<taskVars, uploadVars, sliceVars, mergeVars, pollVars, gateVars, extractVars, clipVars, raceVars, proxyVars, handlerVars>>
    \/ GatherReturns /\ UNCHANGED <<taskVars, uploadVars, sliceVars, mergeVars, pollVars, gateVars, extractVars, clipVars, raceVars, proxyVars, handlerVars>>
    \/ PacingDone /\ UNCHANGED <<taskVars, uploadVars, sliceVars, mergeVars, pollVars, gateVars, extractVars, clipVars, raceVars, proxyVars, handlerVars>>
    \/ Return /\ UNCHANGED <<taskVars, uploadVars, sliceVars, mergeVars, pollVars, gateVars, extractVars, clipVars, raceVars, proxyVars, handlerVars>>

SpecTranscribe == InitTranscribeSpec /\ [][NextTranscribe]_vars

(***************************************************************************)
(* Claims on the parallel transcriber                                      *)
(***************************************************************************)
\* C6: the list transcribe_clips_parallel returns has exactly one result per
\* input clip, the k-th result being the one of the k-th clip (ascending
\* index), whatever the clips' outcomes and the order in which they finished.
C6_OneResultPerClipInOrder ==
    tr.pc = "returned" =>
        /\ Len(tr.results) = Len(tr.clips)
        /\ \A k \in 1..Len(tr.results) :
              /\ ~IsException(tr.results[k])
              /\ tr.results[k].index = k - 1
              /\ tr.results[k].clip_id = tr.clips[k].id

\* a returned run of two batches in which a clip failed, another succeeded
\* and the clips did not finish in index order
C6_Witness ==
    /\ tr.pc = "returned"
    /\ Len(tr.clips) > tr.max_workers
    /\ \E k \in 1..Len(tr.results) : tr.results[k].error # ""
    /\ \E k \in 1..Len(tr.results) : tr.results[k].error = ""
    /\ \E a, b \in 1..Len(tr.log) : a < b /\ tr.log[a] > tr.log[b]

\* C7: at every instant of a run at most max_workers clip transcriptions are
\* in flight.
C7_AtMostMaxWorkersInFlight == Cardinality(InFlight) <= tr.max_workers

\* max_workers transcriptions in flight at once, with clips still waiting for
\* a later batch
C7_Witness ==
    /\ Cardinality(InFlight) = tr.max_workers
    /\ tr.max_workers > 1
    /\ Len(tr.clips) > tr.i + tr.max_workers

InitUploadSpec == InitUpload /\ IdleTask /\ IdleTranscriber /\ IdleSlice /\ IdleMerge /\ IdlePoll /\ IdleGate /\ IdleExtract /\ IdleClips /\ IdleRace /\ IdleProxy /\ IdleHandler

NextUpload ==
    \/ Tick /\ UNCHANGED <<taskVars, trVars, sliceVars, mergeVars, pollVars, gateVars, extractVars, clipVars, raceVars, proxyVars, handlerVars>>
    \/ \E u \in Uploaders, n \in TotalChoices :
          init_chunked_upload(u, n) /\ UNCHANGED <<taskVars, trVars, sliceVars, mergeVars, pollVars, gateVars, extractVars, clipVars, raceVars, proxyVars, handlerVars>>
    \/ \E u \in Users, id \in KnownIds, i \in 0..MaxChunks :
          upload_chunk(u, id, i) /\ UNCHANGED <<taskVars, trVars, sliceVars, mergeVars, pollVars, gateVars, extractVars, clipVars, raceVars, proxyVars, handlerVars>>
    \/ \E u \in Users, id \in KnownIds :
          finalize_chunked_upload(u, id) /\ UNCHANGED <<taskVars, trVars, sliceVars, mergeVars, pollVars, gateVars, extractVars, clipVars, raceVars, proxyVars, handlerVars>>

SpecUpload == InitUploadSpec /\ [][NextUpload]_vars

(***************************************************************************)
(* Claims on the chunked upload                                            *)
(***************************************************************************)
\* the chunk indexes a session has stored
Received(upload_session) ==
    {IntOfStr(upload_session.chunks_data[k]) : k \in 1..Len(upload_session.chunks_data)}

AllReceived(upload_session) ==
    (0..(upload_session.total_chunks - 1)) \subseteq Received(upload_session)

\* the upload ids for which finalize has succeeded
FinalizedIds == {processed[k].upload_session.upload_id : k \in 1..Len(processed)}

\* C4: a finalize call of the owner on a live session succeeds exactly when
\* every chunk index in [0, total_chunks) has been received at least once,
\* whatever upload_chunk calls came before, repeated indexes included.
C4_FinalizeIffAllReceived ==
    [][\A u \in Users, id \in DOMAIN session_files :
          (finalize_chunked_upload(u, id) /\ session_files[id].user_id = u)
             => ((response'.status = 200) <=> AllReceived(session_files[id]))]_vars

\* C5: chunks_received of a session always equals the number of distinct
\* chunk indexes the session has stored: a re-sent index is not counted again.
C5_CounterCountsDistinctIndexes ==
    \A id \in DOMAIN session_files :
        session_files[id].chunks_received = Len(session_files[id].chunks_data)

\* the payloads of the chunks with index in S, lowest index first
RECURSIVE ConcatAscending(_, _)
ConcatAscending(user, S) ==
    IF S = {} THEN <<>>
    ELSE LET i == CHOOSE j \in S : \A k \in S : j <= k
         IN  ChunkBytes(user, i) \o ConcatAscending(user, S \ {i})

\* C8: whatever the order in which the chunks of a complete session arrived,
\* the payload finalize reconstructs is the concatenation of the chunk
\* payloads in ascending numeric index order; chunks that arrived in the
\* order 2,0,3,1 are read in the order 0,1,2,3.
C8_ReconstructsAscending ==
    /\ \A k \in 1..Len(processed) :
          LET upload_session == processed[k].upload_session
          IN  AllReceived(upload_session)
                 => processed[k].audio = ConcatAscending(upload_session.user_id,
                                                         Received(upload_session))
    /\ ReadOrder(<<"2", "0", "3", "1">>) = <<"0", "1", "2", "3">>

\* a complete session was finalized whose chunks had arrived highest index first
C8_Witness ==
    \E k \in 1..Len(processed) :
        LET upload_session == processed[k].upload_session
        IN  /\ AllReceived(upload_session)
            /\ Len(upload_session.chunks_data) > 1
            /\ \A a, b \in 1..Len(upload_session.chunks_data) :
                  a < b => IntOfStr(upload_session.chunks_data[a])
                              > IntOfStr(upload_session.chunks_data[b])

\* C9: after finalize has succeeded for an upload_id, every later finalize
\* with that upload_id is answered 404 (session not found) and reconstructs
\* nothing.
C9_FinalizedIdIsGone ==
    [][\A u \in Users, id \in FinalizedIds :
          finalize_chunked_upload(u, id)
             => (response'.status = 404 /\ processed' = processed)]_vars

\* C10: upload_chunk and finalize_chunked_upload called by a user who does
\* not own the session are answered 403, and the session record with its
\* received counter, the stored chunks and the reconstructed uploads are what
\* they were before the call.
C10_NonOwnerRejected ==
    [][\A u \in Users, id \in DOMAIN session_files :
          (/\ session_files[id].user_id # u
           /\ \/ finalize_chunked_upload(u, id)
              \/ \E i \in 0..MaxChunks : upload_chunk(u, id, i))
             => /\ response'.status = 403
                /\ UNCHANGED <<session_files, chunk_files, processed>>]_vars

\* another user's finalize was turned away from a session that holds all of
\* its chunks and still waits for its owner's finalize
C10_Witness ==
    /\ response.op = "finalize"
    /\ response.status = 403
    /\ response.upload_id \in DOMAIN session_files
    /\ session_files[response.upload_id].user_id # response.user
    /\ AllReceived(session_files[response.upload_id])
    /\ session_files[response.upload_id].chunks_received
          = session_files[response.upload_id].total_chunks

\* C11: upload_chunk turns away a chunk whose chunk_index lies outside
\* [0, total_chunks) of the session: the call is not answered 200, no chunk
\* file is written and the session, its counter included, stays as it was.
C11_OutOfRangeIndexRejected ==
    [][\A u \in Users, id \in DOMAIN session_files, i \in 0..MaxChunks :
          (/\ session_files[id].user_id = u
           /\ i \notin 0..(session_files[id].total_chunks - 1)
           /\ upload_chunk(u, id, i))
             => /\ response'.status # 200
                /\ UNCHANGED <<session_files, chunk_files>>]_vars

InitSliceSpec == InitSlice /\ IdleTask /\ IdleTranscriber /\ IdleUpload /\ IdleMerge /\ IdlePoll /\ IdleGate /\ IdleExtract /\ IdleClips /\ IdleRace /\ IdleProxy /\ IdleHandler

NextSlice ==
    \/ ParseDuration /\ UNCHANGED <<taskVars, trVars, uploadVars, mergeVars, pollVars, gateVars, extractVars, clipVars, raceVars, proxyVars, handlerVars>>
    \/ ComputeSlice /\ UNCHANGED <<taskVars, trVars, uploadVars, mergeVars, pollVars, gateVars, extractVars, clipVars, raceVars, proxyVars, handlerVars>>

SpecSlice == InitSliceSpec /\ [][NextSlice]_vars

(***************************************************************************)
(* Claims on the slice functions                                           *)
(***************************************************************************)
\* 3600*h + 60*m + s of the tokens of a list, an absent token counting 0
RECURSIVE TokenTotal(_)
TokenTotal(tokens) ==
    IF tokens = <<>> THEN 0
    ELSE LET value == Head(tokens)[1]
             unit  == Head(tokens)[2]
         IN  (IF unit = "h" THEN 3600 * value ELSE IF unit = "m" THEN 60 * value ELSE value)
             + TokenTotal(Tail(tokens))

\* C12: compute_slice_parameters returns an error and no plan when the
\* available seconds are 0; otherwise, with want = window_minutes*60, the
\* whole-recording plan (no slicing, actual_duration = available) when
\* available <= want, and else a tail-window plan with actual_duration = want
\* and start_seconds = available - want >= 0.  "20m" with 30 minutes covers
\* all 1200 seconds.
C12_SlicePlan ==
    /\ slice.computed =>
          LET available == TokenTotal(slice.tokens)
              want      == slice.window_minutes * 60
              plan      == slice.returned[1]
              error     == slice.returned[2]
          IN  /\ available = 0 => (plan = None /\ error # None)
              /\ (available > 0 /\ available <= want) =>
                    /\ error = None
                    /\ plan # None
                    /\ plan.slice_option = None
                    /\ ~plan.from_end
                    /\ plan.actual_duration = available
              /\ available > want =>
                    /\ error = None
                    /\ plan # None
                    /\ plan.slice_option # None
                    /\ plan.from_end
                    /\ plan.actual_duration = want
                    /\ plan.start_seconds = available - want
                    /\ plan.start_seconds >= 0
    /\ compute_slice_parameters(<<"2", "0", "m">>, 30)
          = <<[slice_option |-> None, actual_duration |-> 1200, from_end |-> FALSE], None>>

\* all three outcomes of compute_slice_parameters have been returned: here a
\* recording exactly as long as the window, taken whole
C12_Witness ==
    /\ slice.computed
    /\ slice.returned[1] # None
    /\ ~slice.returned[1].from_end
    /\ slice.returned[1].actual_duration = slice.window_minutes * 60

\* the fields of a string that are separated by colons
RECURSIVE ColonFields(_)
ColonFields(string) ==
    IF \A k \in 1..Len(string) : string[k] # ":" THEN <<string>>
    ELSE LET k == CHOOSE c \in 1..Len(string) :
                     string[c] = ":" /\ \A b \in 1..(c - 1) : string[b] # ":"
         IN  <<SubSeq(string, 1, k - 1)>> \o ColonFields(SubSeq(string, k + 1, Len(string)))

\* a number written with digits only, in two digits or in as many as it needs
TwoDigitsAtLeast(field) ==
    /\ Len(field) >= 2
    /\ \A k \in 1..Len(field) : IsDigit(field[k])
    /\ Len(field) > 2 => field[1] # "0"

\* C13: the start_time of a tail-window plan is start_seconds written as
\* HH:MM:SS, hours = s div 3600, minutes = (s mod 3600) div 60 and seconds =
\* s mod 60, each with at least two digits; "45m" with a window of 30 minutes
\* starts at "00:15:00".
C13_StartTimeFormat ==
    /\ (slice.computed /\ slice.returned[1] # None /\ slice.returned[1].from_end) =>
          LET s      == slice.returned[1].start_seconds
              fields == ColonFields(slice.returned[1].start_time)
          IN  /\ Len(fields) = 3
              /\ \A k \in 1..3 : TwoDigitsAtLeast(fields[k])
              /\ IntOfDigits(fields[1]) = s \div 3600
              /\ IntOfDigits(fields[2]) = (s % 3600) \div 60
              /\ IntOfDigits(fields[3]) = s % 60
    /\ compute_slice_parameters(<<"4", "5", "m">>, 30)[1].start_time
          = <<"0", "0", ":", "1", "5", ":", "0", "0">>

\* a tail window that starts after more than 99 hours, at a second that needs
\* padding
C13_Witness ==
    /\ slice.computed
    /\ slice.returned[1] # None
    /\ slice.returned[1].from_end
    /\ slice.returned[1].start_seconds \div 3600 >= 100
    /\ slice.returned[1].start_seconds % 60 \in 1..9

\* C14: parse_twitch_duration of a string of hour, minute and second tokens
\* is 3600*h + 60*m + s, an absent token counting 0, whatever the order of
\* the tokens: "1h30m" and "30m1h" both give 5400.
C14_ParseOrderIndependent ==
    /\ slice.parsed => slice.total_seconds = TokenTotal(slice.tokens)
    /\ parse_twitch_duration(<<"1", "h", "3", "0", "m">>) = 5400
    /\ parse_twitch_duration(<<"3", "0", "m", "1", "h">>) = 5400

\* a string with its three tokens in the order seconds, minutes, hours was parsed
C14_Witness ==
    /\ slice.parsed
    /\ Len(slice.tokens) = 3
    /\ slice.tokens[1][2] = "s" /\ slice.tokens[1][1] > 0
    /\ slice.tokens[2][2] = "m" /\ slice.tokens[2][1] > 0
    /\ slice.tokens[3][2] = "h" /\ slice.tokens[3][1] > 0

\* C15: request_catchup with duration_minutes outside {30, 60} or with a URL
\* of no supported platform is answered 400, adds no task to the map and
\* schedules no worker; a valid request adds exactly one task, in state
\* initialized, and schedules its worker.
C15_ValidatedBeforeTaskCreated ==
    [][\A u \in StreamUrls, d \in DurationChoices :
          request_catchup(u, d) =>
             IF d \notin {30, 60} \/ u = "https://example.com/live"
             THEN /\ api_response'.code = 400
                  /\ UNCHANGED <<active_tasks, worker>>
             ELSE \E t \in TaskIds :
                     /\ t \notin DOMAIN active_tasks
                     /\ DOMAIN active_tasks' = DOMAIN active_tasks \cup {t}
                     /\ \A o \in DOMAIN active_tasks : active_tasks'[o] = active_tasks[o]
                     /\ active_tasks'[t].status = "initialized"
                     /\ active_tasks'[t].stream_url = u
                     /\ active_tasks'[t].duration_minutes = d
                     /\ worker[t].pc = "none" /\ worker'[t].pc = "scheduled"
                     /\ \A o \in TaskIds \ {t} : worker'[o] = worker[o]
                     /\ api_response' = [op |-> "request_catchup", code |-> 200,
                                         task_id |-> t]]_vars

\* a request was turned away while an accepted one waits in state initialized
C15_Witness ==
    /\ api_response.code = 400
    /\ \E t \in DOMAIN active_tasks :
          active_tasks[t].status = "initialized" /\ worker[t].pc = "scheduled"
    /\ Cardinality(DOMAIN active_tasks) = 1

InitMergeSpec == InitMerge /\ IdleTask /\ IdleTranscriber /\ IdleUpload /\ IdleSlice /\ IdlePoll /\ IdleGate /\ IdleExtract /\ IdleClips /\ IdleRace /\ IdleProxy /\ IdleHandler

NextMerge ==
    \/ MergeTranscripts /\ UNCHANGED <<taskVars, trVars, uploadVars, sliceVars, pollVars, gateVars, extractVars, clipVars, raceVars, proxyVars, handlerVars>>
    \/ StoreResult /\ UNCHANGED <<taskVars, trVars, uploadVars, sliceVars, pollVars, gateVars, extractVars, clipVars, raceVars, proxyVars, handlerVars>>

SpecMerge == InitMergeSpec /\ [][NextMerge]_vars

(***************************************************************************)
(* Claims on merge_transcripts                                             *)
(***************************************************************************)
IsBlank(text) == \A k \in 1..Len(text) : text[k] = " "

\* the texts of the transcripts with index i, i + 1, ... in that order; a
\* text is left out when it is empty, and also when it is blank if skipBlank
RECURSIVE TextsFrom(_, _, _)
TextsFrom(transcripts, i, skipBlank) ==
    LET here == {k \in 1..Len(transcripts) : transcripts[k].index = i}
        rest == {k \in 1..Len(transcripts) : transcripts[k].index > i}
        kept == {k \in here : IF skipBlank THEN ~IsBlank(transcripts[k].text)
                              ELSE transcripts[k].text # <<>>}
    IN  (IF kept = {} THEN <<>> ELSE <<transcripts[CHOOSE k \in kept : TRUE].text>>)
        \o (IF rest = {} THEN <<>> ELSE TextsFrom(transcripts, i + 1, skipBlank))

\* the texts with one blank between each two of them
RECURSIVE SpaceJoined(_)
SpaceJoined(texts) ==
    IF texts = <<>> THEN <<>>
    ELSE IF Len(texts) = 1 THEN texts[1]
    ELSE SpaceJoined(SubSeq(texts, 1, Len(texts) - 1)) \o <<" ">> \o texts[Len(texts)]

\* a text without the blanks at its ends
Trimmed(text) ==
    LET solid == {k \in 1..Len(text) : text[k] # " "}
    IN  IF solid = {} THEN <<>>
        ELSE SubSeq(text, CHOOSE a \in solid : \A b \in solid : a <= b,
                          CHOOSE a \in solid : \A b \in solid : a >= b)

\* C17 as amended: merge_transcripts returns the texts of the results in
\* ascending index order, the texts that are empty or hold blanks only
\* skipped, joined by one space and trimmed; lines 197-209 then store it and
\* set the task to complete.  Seven clips with max_workers = 5 of which the
\* clips 3 and 6 fail give the space-joined text of the other five.
C17_MergeSkipsBlank ==
    LET expected == Trimmed(SpaceJoined(TextsFrom(merge.transcripts, 0, TRUE)))
    IN  /\ merge.pc \in {"merged", "stored"} => merge.combined_transcript = expected
        /\ merge.pc = "stored" =>
              /\ merge.task.status = "complete"
              /\ merge.task.result # None
              /\ merge.task.result.fullTranscript = Prefix(expected, TranscriptLimit)
        /\ (merge.pc = "stored" /\ merge.transcripts = ScenarioC) =>
              /\ Len(merge.transcripts) = 7
              /\ merge.combined_transcript
                    = SpaceJoined(<<MockText, MockText, MockText, MockText, MockText>>)

\* C17: merge_transcripts returns the texts of the results in ascending
\* index order, the empty texts skipped, joined by one space and trimmed.
C17_MergeSkipsEmpty ==
    merge.pc \in {"merged", "stored"} =>
        merge.combined_transcript
            = Trimmed(SpaceJoined(TextsFrom(merge.transcripts, 0, FALSE)))

\* a list that is not in index order, with a failed clip between two clips
\* that have words, was merged and stored
C17_Witness ==
    /\ merge.pc = "stored"
    /\ Len(merge.transcripts) = 3
    /\ merge.transcripts[1].index = 2
    /\ merge.transcripts[3].index = 0
    /\ merge.transcripts[2].text = <<>>
    /\ ~IsBlank(merge.transcripts[1].text)
    /\ ~IsBlank(merge.transcripts[3].text)
    /\ merge.task.status = "complete"

(***************************************************************************)
(* Further claims on the task orchestrator                                 *)
(***************************************************************************)
\* the transcript of the task is long enough for the summarizer to be called
SummarizerCalled(t) ==
    \E k \in 1..Len(worker[t].transcripts) :
        Len(worker[t].transcripts[k].text) >= SummaryMinChars

\* C18: when the summarizer call fails the task does not fail: the fallback
\* summary is used and the task reaches complete with a non-null result.
C18_SummarizerFailureIsRecovered ==
    \A t \in DOMAIN active_tasks :
        (worker[t].pc \in {"sleeping", "done"} /\ SummarizerCalled(t))
            => /\ active_tasks[t].status = "complete"
               /\ active_tasks[t].result # None
               /\ active_tasks[t].result.summary = "fallback_summary"

\* a task whose summarizer call failed is complete, with one clip that failed
\* to transcribe beside one that did not
C18_Witness ==
    \E t \in DOMAIN active_tasks :
        /\ worker[t].pc = "sleeping"
        /\ SummarizerCalled(t)
        /\ \E k \in 1..Len(worker[t].transcripts) : worker[t].transcripts[k].error # ""
        /\ active_tasks[t].status = "complete"

InitPollSpec ==
    InitPoll /\ IdleTask /\ IdleTranscriber /\ IdleUpload /\ IdleSlice /\ IdleMerge /\ IdleGate /\ IdleExtract /\ IdleClips /\ IdleRace /\ IdleProxy /\ IdleHandler

NextPoll ==
    \/ \E k \in 1..MaxJobs :
          k \in DOMAIN jobs /\ UploadReturns(k)
             /\ UNCHANGED <<taskVars, trVars, uploadVars, sliceVars, mergeVars, gateVars, extractVars, clipVars, raceVars, proxyVars, handlerVars>>
    \/ \E k \in 1..MaxJobs :
          k \in DOMAIN jobs /\ SubmitReturns(k)
             /\ UNCHANGED <<taskVars, trVars, uploadVars, sliceVars, mergeVars, gateVars, extractVars, clipVars, raceVars, proxyVars, handlerVars>>
    \/ \E k \in 1..MaxJobs :
          k \in DOMAIN jobs /\ PollAnswers(k)
             /\ UNCHANGED <<taskVars, trVars, uploadVars, sliceVars, mergeVars, gateVars, extractVars, clipVars, raceVars, proxyVars, handlerVars>>
    \/ \E k \in 1..MaxJobs :
          k \in DOMAIN jobs /\ SleepDone(k)
             /\ UNCHANGED <<taskVars, trVars, uploadVars, sliceVars, mergeVars, gateVars, extractVars, clipVars, raceVars, proxyVars, handlerVars>>

\* a step of the coroutine of clip k
JobStep(k) ==
    /\ k \in DOMAIN jobs
    /\ UploadReturns(k) \/ SubmitReturns(k) \/ PollAnswers(k) \/ SleepDone(k)
    /\ UNCHANGED <<taskVars, trVars, uploadVars, sliceVars, mergeVars, gateVars, extractVars, clipVars, raceVars, proxyVars, handlerVars>>

\* The event loop runs every coroutine that can go on, and the service
\* answers every request of every clip.
SpecPoll ==
    InitPollSpec /\ [][NextPoll]_vars /\ \A k \in 1..MaxJobs : WF_vars(JobStep(k))

(***************************************************************************)
(* Claims on the AssemblyAI calls                                          *)
(***************************************************************************)
\* C19: the poll of a job is bounded: a job whose status never becomes
\* completed or error is given up after the maximum wait and its clip is
\* reported as failed, so that in the end every clip of the batch has
\* completed or failed and the batch finishes.
C19_PollIsBounded ==
    <>(\A k \in DOMAIN jobs : jobs[k] \in {"completed", "failed"})

(***************************************************************************)
(* Retention of the tasks                                                  *)
(***************************************************************************)
\* C20: every task that has reached complete or failed is removed from the
\* map when the retention interval is over and none stays for ever: as only
\* the worker of a task removes it (main.py:213-217), a complete or failed
\* task in the map has its worker asleep in the retention interval.
C20_TerminalTaskIsReaped ==
    \A t \in DOMAIN active_tasks :
        active_tasks[t].status \in {"complete", "failed"} => worker[t].pc = "sleeping"

(***************************************************************************)
(* A task together with the AssemblyAI jobs of its clips                   *)
(* (main.py:160-221 over parallel_transcriber.py:37-70 and 166-267).       *)
(* The audio files of the clips exist, so that every clip of the batch is  *)
(* sent to the service; one task is submitted at a time.  The clip lists   *)
(* of StreamUrls fit in one batch of DefaultMaxWorkers.                    *)
(***************************************************************************)
\* POST /api/catchup while no task is running
LiveRequest ==
    /\ active_tasks = <<>>
    /\ jobs = <<>>
    /\ \E u \in StreamUrls, d \in DurationChoices : request_catchup(u, d)
    /\ UNCHANGED jobs

\* main.py:177-190 and parallel_transcriber.py:42-52: the clips are there and
\* the coroutines of the batch are created
LiveTranscriptionStarts(t) ==
    /\ ExtractionReturns(t)
    /\ jobs' = [k \in 1..Min(Len(worker'[t].clips), DefaultMaxWorkers) |-> "uploading"]

\* a coroutine of the batch goes one step on
LiveJobStep(k) ==
    /\ k \in DOMAIN jobs
    /\ UploadReturns(k) \/ SubmitReturns(k) \/ PollAnswers(k) \/ SleepDone(k)
    /\ UNCHANGED taskVars

\* parallel_transcriber.py:52-70 and main.py:187-190: gather returns when every
\* coroutine of the batch has returned, and transcribe_clips_parallel with it
LiveTranscriptionReturns(t) ==
    /\ worker[t].pc = "transcribing"
    /\ jobs # <<>>
    /\ \A k \in DOMAIN jobs : jobs[k] \in {"completed", "failed"}
    /\ LET outcomes == [k \in DOMAIN jobs |->
                           IF jobs[k] = "completed" THEN "completed" ELSE "error"]
       IN  worker' = [worker EXCEPT ![t].pc = "summarizing",
                         ![t].transcripts = transcribe_clips_parallel(worker[t].clips, outcomes)]
    /\ active_tasks' = update_task_status(active_tasks, t, "summarizing", 80,
                                          Msg("Generating AI summary...", 0), None)
    /\ jobs' = <<>>
    /\ UNCHANGED api_response

\* a step of process_catchup_async for task t
LiveWorkerStep(t) ==
    /\ \/ StartProcessing(t) /\ UNCHANGED jobs
       \/ LiveTranscriptionStarts(t)
       \/ LiveTranscriptionReturns(t)
       \/ Summarize(t) /\ UNCHANGED jobs
       \/ Cleanup(t) /\ UNCHANGED jobs
    /\ UNCHANGED <<trVars, uploadVars, sliceVars, mergeVars, gateVars, extractVars, clipVars, raceVars, proxyVars, handlerVars>>

InitLiveSpec ==
    InitTask /\ IdlePoll /\ IdleTranscriber /\ IdleUpload /\ IdleSlice /\ IdleMerge /\ IdleGate /\ IdleExtract /\ IdleClips /\ IdleRace /\ IdleProxy /\ IdleHandler

NextLive ==
    \/ LiveRequest /\ UNCHANGED <<trVars, uploadVars, sliceVars, mergeVars, gateVars, extractVars, clipVars, raceVars, proxyVars, handlerVars>>
    \/ \E t \in TaskIds : StartProcessing(t)
          /\ UNCHANGED <<jobs, trVars, uploadVars, sliceVars, mergeVars, gateVars, extractVars, clipVars, raceVars, proxyVars, handlerVars>>
    \/ \E t \in TaskIds : LiveTranscriptionStarts(t)
          /\ UNCHANGED <<trVars, uploadVars, sliceVars, mergeVars, gateVars, extractVars, clipVars, raceVars, proxyVars, handlerVars>>
    \/ \E k \in 1..DefaultMaxWorkers : LiveJobStep(k)
          /\ UNCHANGED <<trVars, uploadVars, sliceVars, mergeVars, gateVars, extractVars, clipVars, raceVars, proxyVars, handlerVars>>
    \/ \E t \in TaskIds : LiveTranscriptionReturns(t)
          /\ UNCHANGED <<trVars, uploadVars, sliceVars, mergeVars, gateVars, extractVars, clipVars, raceVars, proxyVars, handlerVars>>
    \/ \E t \in TaskIds : Summarize(t)
          /\ UNCHANGED <<jobs, trVars, uploadVars, sliceVars, mergeVars, gateVars, extractVars, clipVars, raceVars, proxyVars, handlerVars>>
    \/ \E t \in TaskIds : Cleanup(t)
          /\ UNCHANGED <<jobs, trVars, uploadVars, sliceVars, mergeVars, gateVars, extractVars, clipVars, raceVars, proxyVars, handlerVars>>

\* The event loop runs every coroutine that can go on, the service answers
\* every request, and every sleep ends.
SpecLive ==
    /\ InitLiveSpec
    /\ [][NextLive]_vars
    /\ \A t \in TaskIds : WF_vars(LiveWorkerStep(t))
    /\ \A k \in 1..DefaultMaxWorkers :
          WF_vars(LiveJobStep(k) /\ UNCHANGED <<trVars, uploadVars, sliceVars, mergeVars, gateVars, extractVars, clipVars, raceVars, proxyVars, handlerVars>>)

\* C21: every submitted task reaches complete or failed in the end, also when
\* the service never finishes a job: a task that has been accepted does not
\* stay in a status that is not terminal for ever.
C21_TaskReachesTerminal ==
    \A t \in TaskIds :
        (worker[t].pc = "scheduled")
            ~> (t \in DOMAIN active_tasks /\ active_tasks[t].status \in {"complete", "failed"})

(***************************************************************************)
(* The tasks of a caller whom the credit gate allows or denies             *)
(* (aws_backend/src/credits.py check_credits; main.py:79-221 never calls   *)
(* it, so no action below reads credit_gate).                              *)
(***************************************************************************)
\* check_credits(user_id, required): has_credits for the caller of the model
GateAnswers == {"allow", "deny"}

InitCreditSpec ==
    /\ InitTask
    /\ credit_gate \in GateAnswers
    /\ IdleTranscriber /\ IdleUpload /\ IdleSlice /\ IdleMerge /\ IdlePoll /\ IdleExtract /\ IdleClips /\ IdleRace /\ IdleProxy /\ IdleHandler

SpecCredit == InitCreditSpec /\ [][NextTask]_vars

\* C22: the orchestrator asks the credit gate before a task enters
\* extracting, and a task of a caller whom the gate denies does no
\* extraction, transcription or summarization: it never shows a status of
\* these phases and never completes.
C22_DeniedTaskDoesNoWork ==
    credit_gate = "deny" =>
        \A t \in DOMAIN active_tasks :
            active_tasks[t].status
                \notin {"extracting_stream", "transcribing", "summarizing", "complete"}

(***************************************************************************)
(* Batches of transcribe_clips_parallel                                    *)
(***************************************************************************)
\* clip c (1-based) has been started: its coroutine runs or has returned
ClipStarted(c) ==
    \/ tr.outcomes[c] # "not run"
    \/ /\ tr.pc = "gather"
       /\ c - tr.i \in 1..Len(tr.tasks)
       /\ tr.tasks[c - tr.i] # "pending"

ClipFinished(c) == tr.outcomes[c] # "not run"

\* the batch of clip c, counted from 0
BatchOf(c) == (c - 1) \div tr.max_workers

BatchesInTurn ==
    /\ \A c, e \in 1..Len(tr.clips) :
          ClipStarted(c) /\ BatchOf(e) < BatchOf(c) => ClipFinished(e)
    /\ tr.pc = "gather" =>
          /\ tr.i % tr.max_workers = 0
          /\ Len(tr.tasks) = Min(tr.max_workers, Len(tr.clips) - tr.i)
    /\ tr.pc = "pacing" =>
          /\ tr.i + tr.max_workers < Len(tr.clips)
          /\ \A c \in 1..(tr.i + tr.max_workers) : ClipFinished(c)

PacingBetweenBatches ==
    /\ tr.pc = "gather" /\ tr'.pc # "gather" =>
          IF tr.i + tr.max_workers < Len(tr.clips)
          THEN tr'.pc = "pacing"
          ELSE tr'.pc = "loop" /\ tr'.i >= Len(tr.clips)
    /\ tr.pc = "pacing" /\ tr'.pc # "pacing" =>
          tr'.pc = "loop" /\ tr'.i = tr.i + tr.max_workers
    /\ tr.pc # "loop" /\ tr'.pc = "loop" /\ tr'.i \in 1..(Len(tr.clips) - 1) =>
          tr.pc = "pacing"
    /\ tr.pc # "gather" /\ tr'.pc = "gather" => tr.pc = "loop"

\* C23: the clips are processed in consecutive batches of max_workers clips:
\* no clip of a later batch is started before every clip of the batches before
\* it has finished, with or without an error; the loop sleeps once after a
\* batch that another batch follows, the next batch starts only when that
\* sleep is over, and there is no sleep after the last batch.
C23_BatchesInTurnWithPacing == []BatchesInTurn /\ [][PacingBetweenBatches]_vars

\* a clip of the second batch runs, after a sleep, and a clip of the first
\* batch has failed
C23_Witness ==
    /\ tr.pc = "gather"
    /\ tr.i > 0
    /\ \E k \in 1..Len(tr.tasks) : tr.tasks[k] = "running"
    /\ \E c \in 1..tr.i : tr.outcomes[c] = "error"

InitExtractSpec ==
    InitExtract /\ IdleTask /\ IdleTranscriber /\ IdleUpload /\ IdleSlice /\ IdleMerge
                /\ IdlePoll /\ IdleGate /\ IdleClips /\ IdleRace /\ IdleProxy /\ IdleHandler

NextExtract ==
    \/ EnterCreate /\ UNCHANGED <<taskVars, trVars, uploadVars, sliceVars, mergeVars, pollVars, gateVars, clipVars, raceVars, proxyVars, handlerVars>>
    \/ PostClip /\ UNCHANGED <<taskVars, trVars, uploadVars, sliceVars, mergeVars, pollVars, gateVars, clipVars, raceVars, proxyVars, handlerVars>>
    \/ CreateReturns /\ UNCHANGED <<taskVars, trVars, uploadVars, sliceVars, mergeVars, pollVars, gateVars, clipVars, raceVars, proxyVars, handlerVars>>
    \/ WaitLoopTest /\ UNCHANGED <<taskVars, trVars, uploadVars, sliceVars, mergeVars, pollVars, gateVars, clipVars, raceVars, proxyVars, handlerVars>>
    \/ PollClip /\ UNCHANGED <<taskVars, trVars, uploadVars, sliceVars, mergeVars, pollVars, gateVars, clipVars, raceVars, proxyVars, handlerVars>>
    \/ EndRound /\ UNCHANGED <<taskVars, trVars, uploadVars, sliceVars, mergeVars, pollVars, gateVars, clipVars, raceVars, proxyVars, handlerVars>>
    \/ Download /\ UNCHANGED <<taskVars, trVars, uploadVars, sliceVars, mergeVars, pollVars, gateVars, clipVars, raceVars, proxyVars, handlerVars>>

SpecExtract == InitExtractSpec /\ [][NextExtract]_vars

(***************************************************************************)
(* Claims on the clip extraction                                           *)
(***************************************************************************)
\* where the window of a plan starts in the recording, in seconds
PlanStart(plan) == IF plan.slice_option = None THEN 0 ELSE plan.start_seconds

RECURSIVE SumDurations(_)
SumDurations(requests) ==
    IF requests = <<>> THEN 0
    ELSE Head(requests).duration + SumDurations(Tail(requests))

\* the requests made so far lie one after the other from the start of the window
RequestsInStride ==
    \A k \in 1..Len(extract.requests) :
        /\ extract.requests[k].vod_offset = PlanStart(extract.slice_params) + (k - 1) * 60
        /\ extract.requests[k].duration \in 1..60

\* C24: for every plan of compute_slice_parameters, of the whole recording or
\* of its tail, the clip requests are made one after the other, the first at
\* the start offset of the plan and each next one 60 seconds later, none
\* longer than 60 seconds, and once create_twitch_clips_for_range has
\* returned they cover the actual_duration seconds of the plan exactly.
C24_RequestsCoverWindow ==
    extract.pc \notin {"idle", "called"} =>
        /\ RequestsInStride
        /\ extract.pc # "creating" =>
              SumDurations(extract.requests) = extract.slice_params.actual_duration

\* C25: the list of fetchable clips that wait_for_clip_processing returns is
\* in creation order, ascending by sequence, whatever the order in which the
\* clips became ready over the rounds.
C25_ProcessedInCreationOrder ==
    extract.pc \in {"downloading", "returned"} =>
        \A a, b \in 1..Len(extract.processed_clips) :
            a < b => extract.processed_clips[a].sequence < extract.processed_clips[b].sequence

\* no round of GETs begins when the wait budget is spent or nothing is missing
RoundWithinBudget ==
    extract.pc = "waiting" /\ extract'.pc # "waiting" =>
        IF /\ extract.elapsed < max_wait_seconds
           /\ Len(extract.processed_clips) < Len(extract.created_clips)
        THEN extract'.pc = "polling"
        ELSE extract'.pc \in {"downloading", "failed"}

\* the wait is over
WaitReturned ==
    \/ extract.pc \in {"downloading", "returned"}
    \/ extract.pc = "failed" /\ extract.error # "Failed to create any clips"

UnreadyClipsDropped ==
    WaitReturned =>
        /\ \A a \in 1..Len(extract.processed_clips) :
              /\ \E k \in 1..Len(extract.created_clips) :
                    extract.created_clips[k] = extract.processed_clips[a]
              /\ \A b \in 1..Len(extract.processed_clips) :
                    extract.processed_clips[a].id = extract.processed_clips[b].id => a = b
        /\ \/ Len(extract.processed_clips) = Len(extract.created_clips)
           \/ extract.elapsed >= max_wait_seconds
        /\ extract.error = "No clips were processed in time" <=> extract.processed_clips = <<>>

InitClipsSpec ==
    InitClips /\ IdleTask /\ IdleTranscriber /\ IdleUpload /\ IdleSlice /\ IdleMerge
              /\ IdlePoll /\ IdleGate /\ IdleExtract /\ IdleRace /\ IdleProxy /\ IdleHandler

NextClips ==
    \/ ClockTick /\ UNCHANGED <<taskVars, trVars, uploadVars, sliceVars, mergeVars, pollVars, gateVars, extractVars, raceVars, proxyVars, handlerVars>>
    \/ \E t \in TaskIds, platform \in ClipPlatforms, d \in CreateDurations :
          CallCreate(t, platform, d)
             /\ UNCHANGED <<taskVars, trVars, uploadVars, sliceVars, mergeVars, pollVars, gateVars, extractVars, raceVars, proxyVars, handlerVars>>
    \/ \E t \in TaskIds : CreateClip(t)
          /\ UNCHANGED <<taskVars, trVars, uploadVars, sliceVars, mergeVars, pollVars, gateVars, extractVars, raceVars, proxyVars, handlerVars>>
    \/ \E t \in TaskIds : ClipsReturn(t)
          /\ UNCHANGED <<taskVars, trVars, uploadVars, sliceVars, mergeVars, pollVars, gateVars, extractVars, raceVars, proxyVars, handlerVars>>

SpecClips == InitClipsSpec /\ [][NextClips]_vars

(***************************************************************************)
(* Claims on the segments of the tasks                                     *)
(***************************************************************************)
SegmentIds(t) ==
    {clipgen.procs[t].clips[k].id : k \in 1..Len(clipgen.procs[t].clips)}

AudioFiles(t) ==
    {clipgen.procs[t].clips[k].audio_file : k \in 1..Len(clipgen.procs[t].clips)}

\* C27: no segment is shared between tasks: for two tasks in flight at the
\* same time, also two submitted in the same second for the same platform,
\* the ids and the audio files of the segments of one are disjoint from those
\* of the other.
C27_SegmentsNotShared ==
    \A t, u \in TaskIds :
        t # u => /\ SegmentIds(t) \cap SegmentIds(u) = {}
                 /\ AudioFiles(t) \cap AudioFiles(u) = {}

InitRaceSpec ==
    InitUpload /\ InitCalls /\ IdleTask /\ IdleTranscriber /\ IdleSlice /\ IdleMerge
               /\ IdlePoll /\ IdleGate /\ IdleExtract /\ IdleClips /\ IdleProxy /\ IdleHandler

NextRace ==
    \/ Tick /\ UNCHANGED <<taskVars, trVars, sliceVars, mergeVars, pollVars, gateVars, extractVars, clipVars, raceVars, proxyVars, handlerVars>>
    \/ \E u \in Uploaders, n \in TotalChoices :
          init_chunked_upload(u, n)
             /\ UNCHANGED <<taskVars, trVars, sliceVars, mergeVars, pollVars, gateVars, extractVars, clipVars, raceVars, proxyVars, handlerVars>>
    \/ \E c \in Callers, u \in Users, id \in DOMAIN session_files, i \in 0..(MaxChunks - 1) :
          LoadSession(c, u, id, i)
             /\ UNCHANGED <<taskVars, trVars, sliceVars, mergeVars, pollVars, gateVars, extractVars, clipVars, proxyVars, handlerVars>>
    \/ \E c \in Callers :
          StoreChunk(c)
             /\ UNCHANGED <<taskVars, trVars, sliceVars, mergeVars, pollVars, gateVars, extractVars, clipVars, proxyVars, handlerVars>>

SpecRace == InitRaceSpec /\ [][NextRace]_vars

(***************************************************************************)
(* Claims on upload_chunk calls that run at the same time                  *)
(***************************************************************************)
\* the calls on session id that have answered 200
Stored(id) == {c \in Callers : calls[c].pc = "done" /\ calls[c].status = 200
                                  /\ calls[c].upload_id = id}

\* C28: access to an upload session is synchronized: when two upload_chunk
\* calls for different chunk indexes of one session run at the same time and
\* both answer 200, the session records both chunks and its received count
\* includes both: no update is lost.
C28_NoLostUpdate ==
    \A id \in DOMAIN session_files :
        /\ session_files[id].chunks_received >= Cardinality(Stored(id))
        /\ \A c \in Stored(id) :
              \E k \in 1..Len(session_files[id].chunks_data) :
                  session_files[id].chunks_data[k] = StrOfInt(calls[c].chunk_index)

(***************************************************************************)
(* Claims on finalize and init of the chunked upload                       *)
(***************************************************************************)
\* a step in which finalize_chunked_upload answers 400
FinalizeRejects ==
    /\ response' # response
    /\ response'.op = "finalize"
    /\ response'.status = 400

\* C29: finalize on a session that has not received all of its chunks is
\* rejected with an error that tells how many chunks are missing out of the
\* total, and it leaves the session record and every stored chunk as they
\* are.
C29_IncompleteFinalizeReportsMissing ==
    [][FinalizeRejects =>
          LET upload_session == session_files[response'.upload_id]
          IN  /\ response'.error[2] =
                     upload_session.total_chunks - upload_session.chunks_received
              /\ response'.error[4] = upload_session.total_chunks
              /\ session_files' = session_files
              /\ chunk_files' = chunk_files]_vars

\* total_chunks of the init requests of clients that also send 0
SmallTotals == {0, 1}

NextSmall ==
    \/ Tick /\ UNCHANGED <<taskVars, trVars, sliceVars, mergeVars, pollVars, gateVars, extractVars, clipVars, raceVars, proxyVars, handlerVars>>
    \/ \E u \in Uploaders, n \in SmallTotals :
          init_chunked_upload(u, n) /\ UNCHANGED <<taskVars, trVars, sliceVars, mergeVars, pollVars, gateVars, extractVars, clipVars, raceVars, proxyVars, handlerVars>>
    \/ \E u \in Users, id \in KnownIds, i \in 0..1 :
          upload_chunk(u, id, i) /\ UNCHANGED <<taskVars, trVars, sliceVars, mergeVars, pollVars, gateVars, extractVars, clipVars, raceVars, proxyVars, handlerVars>>
    \/ \E u \in Users, id \in KnownIds :
          finalize_chunked_upload(u, id) /\ UNCHANGED <<taskVars, trVars, sliceVars, mergeVars, pollVars, gateVars, extractVars, clipVars, raceVars, proxyVars, handlerVars>>

SpecSmall == InitUploadSpec /\ [][NextSmall]_vars

\* C30: init_chunked_upload rejects a request whose total_chunks is not
\* greater than 0 and creates no session for it, so that no session of zero
\* chunks exists and none is ever finalized.
C30_NoSessionOfZeroChunks ==
    /\ \A id \in DOMAIN session_files : session_files[id].total_chunks > 0
    /\ \A k \in 1..Len(processed) : processed[k].upload_session.total_chunks > 0
    /\ response.op = "init" /\ response.status = 200 => response.upload_id[3] > 0

(***************************************************************************)
(* Claims on the failure path and the progress of a task                   *)
(***************************************************************************)
\* the messages of the except branch after a failed extraction: str(e) of the
\* exception of line 180, or of the one the extractor raised
ExtractionCauses ==
    {Msg("Error: No clips could be extracted from stream", 0), Msg("Error: extractor error", 0)}

\* the step in which the extraction of t ends without clips
ExtractionFailed(t) ==
    /\ worker[t].pc = "extracting"
    /\ worker'[t].pc # "extracting"
    /\ worker'[t].clips = <<>>

\* a failed task has no work in flight and has none later
FailedTaskIsAtRest ==
    \A t \in DOMAIN active_tasks :
        active_tasks[t].status = "failed"
            => /\ worker[t].pc = "done"
               /\ worker[t].transcripts = <<>>
               /\ active_tasks[t].result = None

\* C31: when the extraction yields no segments or raises, the task moves to
\* failed with a message that names the cause, and neither transcription nor
\* summarization is started for it.
C31_ExtractionFailureFailsTask ==
    /\ []FailedTaskIsAtRest
    /\ [][\A t \in TaskIds :
             /\ ExtractionFailed(t)
                  => /\ active_tasks'[t].status = "failed"
                     /\ active_tasks'[t].message \in ExtractionCauses
                     /\ worker'[t].pc = "done"
             /\ worker[t].pc = "done" => worker'[t].pc = "done"]_vars

\* one task failed for want of clips while another was transcribed
C31_Witness ==
    \E t, u \in DOMAIN active_tasks :
        /\ active_tasks[t].status = "failed"
        /\ active_tasks[t].message = Msg("Error: No clips could be extracted from stream", 0)
        /\ worker[t].pc = "done"
        /\ active_tasks[u].status = "summarizing"

\* the progress of every task is an integer of 0..100
ProgressInRange ==
    \A t \in DOMAIN active_tasks : active_tasks[t].progress \in 0..100

\* an update that does not fail the task does not lower its progress
ProgressNotLowered ==
    \A t \in DOMAIN active_tasks \cap DOMAIN active_tasks' :
        active_tasks'[t].status # "failed"
            => active_tasks'[t].progress >= active_tasks[t].progress

\* C32: the progress of a task is always an integer in 0..100 and, as long as
\* the task has not failed, each update sets it to a value at least as large
\* as the previous one.
C32_ProgressMonotone == []ProgressInRange /\ [][ProgressNotLowered]_vars

\* one task has been through every update and is at 100 while another is
\* at 40
C32_Witness ==
    \E t, u \in DOMAIN active_tasks :
        /\ active_tasks[t].status = "complete"
        /\ active_tasks[t].progress = 100
        /\ active_tasks[u].status = "transcribing"
        /\ active_tasks[u].progress = 40

(***************************************************************************)
(* The orchestrator with its status endpoint (main.py:121-140)             *)
(***************************************************************************)
\* the request whose task the status requests follow: 30 minutes of a
\* YouTube stream
StatusUrl == "https://youtube.com/watch?v=x"

NextStatus ==
    \/ request_catchup(StatusUrl, 30) /\ UNCHANGED <<trVars, uploadVars, sliceVars, mergeVars, pollVars, gateVars, extractVars, clipVars, raceVars, proxyVars, handlerVars>>
    \/ \E t \in TaskIds : StartProcessing(t) /\ UNCHANGED <<trVars, uploadVars, sliceVars, mergeVars, pollVars, gateVars, extractVars, clipVars, raceVars, proxyVars, handlerVars>>
    \/ \E t \in TaskIds : ExtractionReturns(t) /\ UNCHANGED <<trVars, uploadVars, sliceVars, mergeVars, pollVars, gateVars, extractVars, clipVars, raceVars, proxyVars, handlerVars>>
    \/ \E t \in TaskIds : ExtractionFails(t) /\ UNCHANGED <<trVars, uploadVars, sliceVars, mergeVars, pollVars, gateVars, extractVars, clipVars, raceVars, proxyVars, handlerVars>>
    \/ \E t \in TaskIds : TranscriptionReturns(t) /\ UNCHANGED <<trVars, uploadVars, sliceVars, mergeVars, pollVars, gateVars, extractVars, clipVars, raceVars, proxyVars, handlerVars>>
    \/ \E t \in TaskIds : Summarize(t) /\ UNCHANGED <<trVars, uploadVars, sliceVars, mergeVars, pollVars, gateVars, extractVars, clipVars, raceVars, proxyVars, handlerVars>>
    \/ \E t \in TaskIds : Cleanup(t) /\ UNCHANGED <<trVars, uploadVars, sliceVars, mergeVars, pollVars, gateVars, extractVars, clipVars, raceVars, proxyVars, handlerVars>>
    \/ \E task_id \in TaskIds :
          get_catchup_status(task_id) /\ UNCHANGED <<trVars, uploadVars, sliceVars, mergeVars, pollVars, gateVars, extractVars, clipVars, raceVars, proxyVars, handlerVars>>

SpecStatus == InitTaskSpec /\ [][NextStatus]_vars

\* the step is one that answers a status request
StatusAnswered ==
    /\ api_response' # api_response
    /\ api_response'.op = "get_catchup_status"

\* C33: get_catchup_status is read-only: for a known task it returns the
\* task's current status, progress, message and result and changes nothing in
\* the task map; for an unknown task id it returns 404 and also changes
\* nothing.
C33_StatusIsReadOnly ==
    [][StatusAnswered =>
          LET task_id == api_response'.task_id
          IN  /\ active_tasks' = active_tasks
              /\ worker' = worker
              /\ IF task_id \in DOMAIN active_tasks
                 THEN /\ api_response'.code = 200
                      /\ api_response'.status = active_tasks[task_id].status
                      /\ api_response'.progress = active_tasks[task_id].progress
                      /\ api_response'.message = active_tasks[task_id].message
                      /\ api_response'.result = active_tasks[task_id].result
                 ELSE api_response'.code = 404]_vars

\* a complete task was read with its result, and the task is still in the map
C33_Witness ==
    /\ api_response.op = "get_catchup_status"
    /\ api_response.code = 200
    /\ api_response.result # None
    /\ api_response.task_id \in DOMAIN active_tasks
    /\ \E u \in TaskIds : u \notin DOMAIN active_tasks /\ worker[u].pc = "done"

(***************************************************************************)
(* Claim on the file that create_clips_for_vod_range returns               *)
(***************************************************************************)
\* the seconds of the files, one file after the other
RECURSIVE ContentOf(_)
ContentOf(files) ==
    IF files = <<>> THEN <<>> ELSE Head(files).content \o ContentOf(Tail(files))

\* the sequence numbers go up along the list
Ascending(numbers) ==
    \A k \in 1..(Len(numbers) - 1) : numbers[k] < numbers[k + 1]

\* C34: download_and_combine_clips returns one media file that holds the
\* content of every clip that was downloaded, in ascending sequence order; no
\* downloaded clip is left out of what goes to transcription.
C34_CombinedHoldsEveryClip ==
    extract.pc = "returned"
        => /\ extract.combined_file # None
           /\ extract.combined_file.content = ContentOf(extract.clip_files)
           /\ Ascending(extract.combined_file.content)

(***************************************************************************)
(* finalize_chunked_upload calls that run at the same time                 *)
(***************************************************************************)
InitFinalSpec ==
    InitUpload /\ InitFinalizes /\ IdleTask /\ IdleTranscriber /\ IdleSlice /\ IdleMerge
               /\ IdlePoll /\ IdleGate /\ IdleExtract /\ IdleClips /\ IdleProxy /\ IdleHandler

NextFinal ==
    \/ \E u \in Uploaders, n \in TotalChoices :
          init_chunked_upload(u, n)
             /\ UNCHANGED <<taskVars, trVars, sliceVars, mergeVars, pollVars, gateVars, extractVars, clipVars, raceVars, proxyVars, handlerVars>>
    \/ \E u \in Uploaders, id \in DOMAIN session_files, i \in 0..(MaxChunks - 1) :
          upload_chunk(u, id, i)
             /\ UNCHANGED <<taskVars, trVars, sliceVars, mergeVars, pollVars, gateVars, extractVars, clipVars, raceVars, proxyVars, handlerVars>>
    \/ \E c \in Callers, u \in Uploaders, id \in KnownIds :
          LoadFinalize(c, u, id)
             /\ UNCHANGED <<taskVars, trVars, sliceVars, mergeVars, pollVars, gateVars, extractVars, clipVars, proxyVars, handlerVars>>
    \/ \E c \in Callers :
          ReadChunk(c)
             /\ UNCHANGED <<taskVars, trVars, sliceVars, mergeVars, pollVars, gateVars, extractVars, clipVars, proxyVars, handlerVars>>
    \/ \E c \in Callers :
          RemoveChunk(c)
             /\ UNCHANGED <<taskVars, trVars, sliceVars, mergeVars, pollVars, gateVars, extractVars, clipVars, proxyVars, handlerVars>>
    \/ \E c \in Callers :
          ProcessAudio(c)
             /\ UNCHANGED <<taskVars, trVars, sliceVars, mergeVars, pollVars, gateVars, extractVars, clipVars, proxyVars, handlerVars>>

SpecFinal == InitFinalSpec /\ [][NextFinal]_vars

\* call c has answered, and the session it loaded had a chunk of every index
FinalizedComplete(c) ==
    /\ calls[c].pc = "done"
    /\ calls[c].upload_session # None
    /\ {IntOfStr(calls[c].upload_session.chunks_data[k]) :
            k \in 1..Len(calls[c].upload_session.chunks_data)}
          = 0..(calls[c].upload_session.total_chunks - 1)

\* C35: two finalize_chunked_upload calls on one complete session that run at
\* the same time never both reconstruct the payload: at most one of them
\* reads every chunk and returns the assembled audio, and the other fails
\* with session not found (404).
C35_OneFinalizeWins ==
    \A c, d \in Callers :
        (/\ c # d
         /\ calls[c].upload_id = calls[d].upload_id
         /\ FinalizedComplete(c)
         /\ calls[c].status = 200
         /\ calls[d].pc = "done"
         /\ calls[d].status # 400)
            => /\ calls[c].audio = ConcatAscending(calls[c].user,
                                       0..(calls[c].upload_session.total_chunks - 1))
               /\ calls[d].status = 404

\* C36: every call of init_chunked_upload yields an upload_id that no live
\* session uses: a second init, also one by the same user in the same second
\* with the same total_chunks, never replaces or resets a session that is
\* still receiving chunks.
C36_InitKeepsLiveSessions ==
    [][inits' # inits
          => \A id \in DOMAIN session_files :
                /\ id \in DOMAIN session_files'
                /\ session_files'[id] = session_files[id]]_vars

(***************************************************************************)
(* catchup_proxy calls of one user that run at the same time               *)
(***************************************************************************)
InitProxySpec ==
    InitProxy /\ IdleTask /\ IdleTranscriber /\ IdleUpload /\ IdleSlice /\ IdleMerge
              /\ IdlePoll /\ IdleGate /\ IdleExtract /\ IdleClips /\ IdleRace /\ IdleHandler

NextProxy ==
    \/ \E c \in Callers, duration_minutes \in {30, 60} :
          CheckCredits(c, duration_minutes)
             /\ UNCHANGED <<taskVars, trVars, uploadVars, sliceVars, mergeVars, pollVars, gateVars, extractVars, clipVars, raceVars, handlerVars>>
    \/ \E c \in Callers :
          ProcessReturns(c)
             /\ UNCHANGED <<taskVars, trVars, uploadVars, sliceVars, mergeVars, pollVars, gateVars, extractVars, clipVars, raceVars, handlerVars>>
    \/ \E c \in Callers :
          DeductRead(c)
             /\ UNCHANGED <<taskVars, trVars, uploadVars, sliceVars, mergeVars, pollVars, gateVars, extractVars, clipVars, raceVars, handlerVars>>
    \/ \E c \in Callers :
          DeductWrite(c)
             /\ UNCHANGED <<taskVars, trVars, uploadVars, sliceVars, mergeVars, pollVars, gateVars, extractVars, clipVars, raceVars, handlerVars>>

SpecProxy == InitProxySpec /\ [][NextProxy]_vars

\* the credits of the calls in S that were answered with success
RECURSIVE CreditsOfSuccesses(_)
CreditsOfSuccesses(S) ==
    IF S = {} THEN 0
    ELSE LET c == CHOOSE d \in S : TRUE
         IN  (IF proxy.calls[c].status = 200 THEN proxy.calls[c].credits_needed ELSE 0)
             + CreditsOfSuccesses(S \ {c})

\* no call is between its credit check and its answer
NoCallInFlight == \A c \in Callers : proxy.calls[c].pc \in {"none", "done"}

\* C37: catchup_proxy takes credits_needed from the user's balance exactly
\* once for every request it answers with success and never for a request it
\* answers with an error, also when two requests of one user whose balance
\* covers only one of them run at the same time.
C37_DeductedOncePerSuccess ==
    NoCallInFlight
        => proxy.credits_balance = proxy.granted - CreditsOfSuccesses(Callers)

(***************************************************************************)
(* create_parallel_clips on every platform and window                      *)
(***************************************************************************)
\* the platforms _detect_platform tells apart, and the windows request_catchup
\* lets through
WindowPlatforms == {"twitch", "youtube", "kick"}
WindowMinutes == {30, 60}

NextWindow ==
    \/ \E t \in TaskIds, platform \in WindowPlatforms, d \in WindowMinutes :
          CallCreate(t, platform, d)
             /\ UNCHANGED <<taskVars, trVars, uploadVars, sliceVars, mergeVars, pollVars, gateVars, extractVars, raceVars, proxyVars, handlerVars>>
    \/ \E t \in TaskIds : CreateClip(t)
          /\ UNCHANGED <<taskVars, trVars, uploadVars, sliceVars, mergeVars, pollVars, gateVars, extractVars, raceVars, proxyVars, handlerVars>>
    \/ \E t \in TaskIds : ClipsReturn(t)
          /\ UNCHANGED <<taskVars, trVars, uploadVars, sliceVars, mergeVars, pollVars, gateVars, extractVars, raceVars, proxyVars, handlerVars>>

SpecWindow == InitClipsSpec /\ [][NextWindow]_vars

\* each clip starts where the one before it ends, the first at 0
Contiguous(clips) ==
    \A k \in 1..Len(clips) :
        clips[k].start_time = IF k = 1 THEN 0
                              ELSE clips[k - 1].start_time + clips[k - 1].duration

RECURSIVE TotalDuration(_)
TotalDuration(clips) ==
    IF clips = <<>> THEN 0 ELSE Head(clips).duration + TotalDuration(Tail(clips))

\* C38: for each platform (twitch, youtube, kick) and each allowed window (30
\* or 60 minutes) the clips create_parallel_clips returns are contiguous and
\* do not overlap, and their durations sum to duration_minutes * 60 seconds.
C38_ClipsCoverWindow ==
    \A t \in TaskIds :
        clipgen.procs[t].pc = "returned"
            => /\ Contiguous(clipgen.procs[t].clips)
               /\ TotalDuration(clipgen.procs[t].clips)
                     = clipgen.procs[t].duration_minutes * 60

(***************************************************************************)
(* The deep links of the key moments                                       *)
(***************************************************************************)
InitMomentsSpec ==
    InitMoments /\ IdleTask /\ IdleTranscriber /\ IdleUpload /\ IdleMerge /\ IdlePoll
                /\ IdleGate /\ IdleExtract /\ IdleClips /\ IdleRace /\ IdleProxy /\ IdleHandler

NextMoments ==
    \/ ExtractMoment /\ UNCHANGED <<taskVars, trVars, uploadVars, mergeVars, pollVars, gateVars, extractVars, clipVars, raceVars, proxyVars, handlerVars>>
    \/ ReturnMoments /\ UNCHANGED <<taskVars, trVars, uploadVars, mergeVars, pollVars, gateVars, extractVars, clipVars, raceVars, proxyVars, handlerVars>>

SpecMoments == InitMomentsSpec /\ [][NextMoments]_vars

\* C39: for a tail-window plan the deep link of each key moment points at the
\* recording second start_seconds + the offset of the moment in the window:
\* the plan's formatted start_time, read back into seconds, is start_seconds.
C39_DeepLinkIsAbsolute ==
    slice.slice_params.from_end
        => \A k \in 1..Len(slice.moments) :
              /\ parse_twitch_duration(slice.slice_params.start_time)
                    = slice.slice_params.start_seconds
              /\ slice.moments[k].deep_link.t
                    = slice.slice_params.start_seconds + slice.moments[k].moment_seconds

(***************************************************************************)
(* The answers of the serverless catch-up handlers                         *)
(***************************************************************************)
InitHandlerSpec ==
    InitHandlers /\ IdleTask /\ IdleTranscriber /\ IdleUpload /\ IdleSlice /\ IdleMerge
                 /\ IdlePoll /\ IdleGate /\ IdleExtract /\ IdleClips /\ IdleRace /\ IdleProxy

NextHandler ==
    \/ \E c \in Callers, valid \in BOOLEAN, duration_minutes \in DurationChoices :
          PostRequest(c, valid, duration_minutes)
             /\ UNCHANGED <<taskVars, trVars, uploadVars, sliceVars, mergeVars, pollVars, gateVars, extractVars, clipVars, raceVars, proxyVars>>
    \/ \E c \in Callers :
          PostExtraction(c)
             /\ UNCHANGED <<taskVars, trVars, uploadVars, sliceVars, mergeVars, pollVars, gateVars, extractVars, clipVars, raceVars, proxyVars>>
    \/ \E c \in Callers :
          PostTranscription(c)
             /\ UNCHANGED <<taskVars, trVars, uploadVars, sliceVars, mergeVars, pollVars, gateVars, extractVars, clipVars, raceVars, proxyVars>>
    \/ \E c \in Callers :
          LambdaRequest(c)
             /\ UNCHANGED <<taskVars, trVars, uploadVars, sliceVars, mergeVars, pollVars, gateVars, extractVars, clipVars, raceVars, proxyVars>>
    \/ \E c \in Callers :
          LambdaDownload(c)
             /\ UNCHANGED <<taskVars, trVars, uploadVars, sliceVars, mergeVars, pollVars, gateVars, extractVars, clipVars, raceVars, proxyVars>>
    \/ \E c \in Callers :
          LambdaTranscription(c)
             /\ UNCHANGED <<taskVars, trVars, uploadVars, sliceVars, mergeVars, pollVars, gateVars, extractVars, clipVars, raceVars, proxyVars>>

SpecHandler == InitHandlerSpec /\ [][NextHandler]_vars

\* C40: the serverless catch-up handler answers with status complete only
\* when both the audio extraction and the transcription succeeded; a request
\* whose extraction or transcription failed is never reported complete.
C40_CompleteOnlyOnSuccess ==
    \A c \in Callers :
        handler[c].status = "complete"
            => handler[c].extracted /\ handler[c].transcribed

====
